---- MODULE Spec2Model ----
(***************************************************************************)
(* A model of Aether-Lib's reliable link (src/src/link), its               *)
(* acknowledgement bookkeeping (src/src/acknowledgement.rs), the packet    *)
(* codec (src/src/packet.rs) and the handshake (src/src/peer/handshake.rs).*)
(*                                                                         *)
(* Two peers "A" and "B" each own one Link.  Each Link has a send worker   *)
(* and a receive worker; datagrams travel over a channel that may lose,    *)
(* duplicate and reorder them.                                             *)
(***************************************************************************)
EXTENDS Integers, Sequences, FiniteSets, TLC

Peers == {"A", "B"}

Other(l) == IF l = "A" THEN "B" ELSE "A"

(***************************************************************************)
(* Bounds of the model.                                                    *)
(***************************************************************************)
\* number of send() calls the application makes on one link
MaxSend == 2
\* number of datagrams in flight towards one peer
MaxChan == 1
\* link.window_size of the configuration the links run with
WindowSize == 2
\* link.max_retries of the configuration the links run with
MaxRetries == 1
\* link.timeout of the configuration, counted in socket read timeouts (1 s)
LinkTimeout == 0

\* the payloads the application sends
Payloads == {<<7>>, <<8>>}

\* the peers whose application sends payloads
Senders == {"A"}

\* the initialisation vectors encrypt_bytes draws (gen_nonce)
IVs == {3}

\* the secrets enable_encryption draws (gen_nonce)
Secrets == {<<1>>, <<5>>}

\* the secret the peer of the life-cycle scenario drew, and the payload it sends
PeerSecret == <<6>>

PeerPayload == <<8>>

\* the sequence numbers a handshake draws (thread_rng().gen_range(0..1 << 16))
HsSeqs == {3, 4}

\* handshake.handshake_timeout, counted in socket read timeouts (peer_poll_time)
HsTimeout == 2

\* the highest sequence number the acknowledgement scenarios insert
MaxAck == 7

\* number of send() calls of the window scenario (more than one window)
MaxBurst == 3

\* initial sequence numbers of the two links (as agreed by the handshake)
InitSeq(l) == IF l = "A" THEN 0 ELSE 10

(***************************************************************************)
(* Program constants.                                                      *)
(***************************************************************************)
MAX_WINDOW == 65000
RETRY_DELAY == 100
ACK_ONLY_TIME == 100

config ==
    [link |-> [window_size   |-> WindowSize,
               timeout       |-> LinkTimeout,
               retry_delay   |-> RETRY_DELAY,
               ack_only_time |-> ACK_ONLY_TIME,
               max_retries   |-> MaxRetries]]

(***************************************************************************)
(* acknowledgement.rs : AcknowledgementCheck                               *)
(* The HashMap<u32, bool> only ever holds the value true, so it is a set.  *)
(***************************************************************************)
AckCheckNew(begin) == [begin |-> begin, list |-> {}]

AckCheckCheck(c, ack) == ack <= c.begin \/ ack \in c.list

RECURSIVE AckCheckUpdateBegin(_)
AckCheckUpdateBegin(c) ==
    IF AckCheckCheck(c, c.begin + 1)
    THEN AckCheckUpdateBegin([begin |-> c.begin + 1, list |-> c.list \ {c.begin + 1}])
    ELSE c

AckCheckInsert(c, ack) ==
    AckCheckUpdateBegin(IF ack > c.begin THEN [c EXCEPT !.list = @ \cup {ack}] ELSE c)

\* for i in lo..hi { self.insert(base + i) } unless skip holds of i
RECURSIVE AckCheckInsertRange(_, _, _, _, _)
AckCheckInsertRange(c, base, lo, hi, skip) ==
    IF lo > hi THEN c
    ELSE AckCheckInsertRange(IF lo \in skip THEN c ELSE AckCheckInsert(c, base + lo),
                             base, lo + 1, hi, skip)

SeqToSet(s) == {s[i] : i \in 1..Len(s)}

\* an acknowledge that takes every offset up to ack_end as received
AckCheckAcknowledgeAll(c, ack) ==
    LET c1 == IF c.begin < ack.ack_begin
              THEN AckCheckInsertRange(c, 0, c.begin, ack.ack_begin, {})
              ELSE c
    IN AckCheckInsertRange(c1, ack.ack_begin, 0, ack.ack_end, {})

\* an acknowledge that takes ack_begin as the sequence before the first one received
AckCheckAcknowledgeThrough(c, ack) ==
    LET c1 == IF c.begin < ack.ack_begin + 1
              THEN AckCheckInsertRange(c, 0, c.begin, ack.ack_begin + 1, {})
              ELSE c
    IN AckCheckInsertRange(c1, ack.ack_begin, 0, ack.ack_end, SeqToSet(ack.miss))

AckCheckAcknowledge(c, ack) ==
    LET c1 == IF c.begin < ack.ack_begin
              THEN AckCheckInsertRange(c, 0, c.begin, ack.ack_begin, {})
              ELSE c
    IN AckCheckInsertRange(c1, ack.ack_begin, 0, ack.ack_end, SeqToSet(ack.miss))

(***************************************************************************)
(* acknowledgement.rs : AcknowledgementList                                *)
(***************************************************************************)
AckListNew(ack_begin) == [list |-> {ack_begin}, ack_begin |-> ack_begin, ack_end |-> 0]

AckListCheck(a, ack) ==
    IF ack <= a.ack_begin THEN TRUE
    ELSE IF a.ack_begin < ack /\ ack <= a.ack_begin + a.ack_end THEN ack \in a.list
    ELSE FALSE

\* an update_begin that advances ack_begin and leaves ack_end as it is
RECURSIVE AckListUpdateBeginKeepEnd(_)
AckListUpdateBeginKeepEnd(a) ==
    IF AckListCheck(a, a.ack_begin + 1)
    THEN AckListUpdateBeginKeepEnd([list      |-> a.list \ {a.ack_begin + 1},
                                    ack_begin |-> a.ack_begin + 1,
                                    ack_end   |-> a.ack_end])
    ELSE a

RECURSIVE AckListUpdateBegin(_)
AckListUpdateBegin(a) ==
    IF AckListCheck(a, a.ack_begin + 1)
    THEN AckListUpdateBegin([list      |-> a.list \ {a.ack_begin + 1},
                             ack_begin |-> a.ack_begin + 1,
                             ack_end   |-> a.ack_end - 1])
    ELSE a

\* insert panics ("ack too large") above the window
AckListInsertPanics(a, ack) == ack > MAX_WINDOW + a.ack_begin

\* an insert that sets ack_end to the offset of the inserted sequence
AckListInsertSetEnd(a, ack) ==
    IF ack > a.ack_begin
    THEN AckListUpdateBegin([a EXCEPT !.ack_end = (ack - a.ack_begin) % 65536,
                                      !.list = @ \cup {ack}])
    ELSE a

\* an insert that leaves ack_end as it is
AckListInsertKeepEnd(a, ack) ==
    IF ack > a.ack_begin
    THEN AckListUpdateBegin([a EXCEPT !.list = @ \cup {ack}])
    ELSE a

AckListInsert(a, ack) ==
    IF ack > a.ack_begin
    THEN LET n == (ack - a.ack_begin) % 65536
         IN AckListUpdateBegin([a EXCEPT !.ack_end = IF n > @ THEN n ELSE @,
                                         !.list = @ \cup {ack}])
    ELSE a

\* a miss list that names the offsets from the highest down
RECURSIVE AckListMissDown(_, _)
AckListMissDown(a, i) ==
    IF i > a.ack_end THEN <<>>
    ELSE AckListMissDown(a, i + 1) \o (IF (i + a.ack_begin) \in a.list THEN <<>> ELSE <<i>>)

RECURSIVE AckListMiss(_, _)
AckListMiss(a, i) ==
    IF i > a.ack_end THEN <<>>
    ELSE (IF (i + a.ack_begin) \in a.list THEN <<>> ELSE <<i>>) \o AckListMiss(a, i + 1)

\* a summary that reports nothing missing
AckListGetComplete(a) ==
    [ack_begin |-> a.ack_begin, ack_end |-> a.ack_end, miss_count |-> 0, miss |-> <<>>]

AckListGet(a) ==
    LET miss == AckListMiss(a, 1)
    IN [ack_begin |-> a.ack_begin, ack_end |-> a.ack_end,
        miss_count |-> Len(miss), miss |-> miss]

\* AcknowledgementList::is_complete
AckListIsComplete(a) == AckListGet(a).miss_count = 0


(***************************************************************************)
(* util.rs / packet.rs : the packet and its wire format.  A datagram is a  *)
(* sequence of bytes (0..255); a payload is a sequence of bytes.           *)
(***************************************************************************)
compile_u32(n) == <<(n \div 16777216) % 256, (n \div 65536) % 256, (n \div 256) % 256, n % 256>>

from_be_bytes(b) == b[1] * 16777216 + b[2] * 65536 + b[3] * 256 + b[4]

\* impl From<PType> for u8
PTypeToU8(p_type) ==
    CASE p_type = "Data" -> 0
      [] p_type = "AckOnly" -> 1
      [] p_type = "Initiation" -> 2
      [] p_type = "KeyExchange" -> 7
      [] p_type = "Extended" -> 15

\* the cast `p_type as u8`: the discriminant of the enum, in declaration order
PTypeAsU8(p_type) ==
    CASE p_type = "Data" -> 0
      [] p_type = "AckOnly" -> 1
      [] p_type = "Initiation" -> 2
      [] p_type = "KeyExchange" -> 3
      [] p_type = "Extended" -> 4

\* impl From<u8> for PType
PTypeFromU8(b) ==
    CASE b = 0 -> "Data"
      [] b = 1 -> "AckOnly"
      [] b = 2 -> "Initiation"
      [] b = 7 -> "KeyExchange"
      [] OTHER -> "Extended"

\* PacketFlags::get_byte
FlagsGetByte(flags) ==
    ((PTypeAsU8(flags.p_type) * 16) % 256)
      + (IF flags.ack THEN 8 ELSE 0) + (IF flags.enc THEN 4 ELSE 0)

\* impl From<u8> for PacketFlags
FlagsFromByte(byte) ==
    [p_type |-> PTypeFromU8((byte \div 16) % 16),
     ack    |-> (byte \div 8) % 2 = 1,
     enc    |-> (byte \div 4) % 2 = 1]

NoAck == [ack_begin |-> 0, ack_end |-> 0, miss_count |-> 0, miss |-> <<>>]

PacketNew(p_type, sequence) ==
    [flags    |-> [p_type |-> p_type, ack |-> FALSE, enc |-> FALSE],
     sequence |-> sequence,
     ack      |-> NoAck,
     payload  |-> <<>>,
     is_meta  |-> FALSE,
     meta     |-> [delay_ms |-> 0, retry_count |-> 0]]

PacketSetMeta(p, meta) == [p EXCEPT !.is_meta = TRUE, !.meta = meta]

PacketAddAck(p, ack) == [p EXCEPT !.ack = ack, !.flags.ack = TRUE]

PacketAppendPayload(p, payload) == [p EXCEPT !.payload = @ \o payload]

PacketSetEnc(p, enc) == [p EXCEPT !.flags.enc = enc]

\* the miss offsets as bytes
MissBytes(miss) == [i \in 1..Len(miss) |-> miss[i] % 256]

\* Packet::compile
PacketCompile(p) ==
    compile_u32(p.sequence) \o compile_u32(p.ack.ack_begin)
      \o <<p.ack.ack_end % 256, FlagsGetByte(p.flags), p.ack.miss_count % 256>>
      \o MissBytes(p.ack.miss) \o p.payload

\* the slices of From<Vec<u8>> for Packet are out of range: the parse panics
PacketParsePanics(bytes) == Len(bytes) < 11 \/ Len(bytes) < 11 + bytes[11]

\* impl From<Vec<u8>> for Packet
PacketParse(bytes) ==
    LET miss_count == bytes[11]
    IN [flags    |-> FlagsFromByte(bytes[10]),
        sequence |-> from_be_bytes(SubSeq(bytes, 1, 4)),
        ack      |-> [ack_begin  |-> from_be_bytes(SubSeq(bytes, 5, 8)),
                      ack_end    |-> bytes[9],
                      miss_count |-> miss_count,
                      miss       |-> SubSeq(bytes, 12, 11 + miss_count)],
        payload  |-> SubSeq(bytes, 12 + miss_count, Len(bytes)),
        is_meta  |-> FALSE,
        meta     |-> [delay_ms |-> 0, retry_count |-> 0]]

\* a needs_ack that asks for an acknowledgement of every packet
needs_ack_all(packet) == TRUE

\* link/mod.rs : needs_ack
needs_ack(packet) ==
    CASE packet.flags.p_type = "Data" -> TRUE
      [] packet.flags.p_type = "KeyExchange" -> TRUE
      [] packet.flags.p_type = "AckOnly" -> FALSE
      [] OTHER -> FALSE

(***************************************************************************)
(* link/receivethread.rs : OrderList.  The HashMap<u32, Packet> is a       *)
(* function from the stored sequence numbers to packets.                   *)
(***************************************************************************)
OrderListNew(seq) == [seq |-> seq, list |-> <<>>]

MapPut(m, k, v) == [x \in (DOMAIN m) \cup {k} |-> IF x = k THEN v ELSE m[x]]

MapRemove(m, k) == [x \in (DOMAIN m) \ {k} |-> m[x]]

\* a drain that releases the packet that arrived and none of the stored successors
OrderListDrainNone(o, result) == [o |-> o, res |-> "Ok", packets |-> result]

\* the loop of the Ordering::Equal arm: drain the stored successors
RECURSIVE OrderListDrain(_, _)
OrderListDrain(o, result) ==
    IF (o.seq + 1) \in DOMAIN o.list
    THEN OrderListDrain([seq |-> o.seq + 1, list |-> MapRemove(o.list, o.seq + 1)],
                        Append(result, o.list[o.seq + 1]))
    ELSE [o |-> o, res |-> "Ok", packets |-> result]

\* a variant of OrderList::insert that releases every packet as it arrives
OrderListInsertUnordered(o, packet) == [o |-> o, res |-> "Ok", packets |-> <<packet>>]

\* OrderList::insert: res is "Ok" (packets released), "Err1" (stored), "Err0" (too old).
\* self.seq is compared with packet.sequence - 1 in u32: for sequence 0 the
\* subtraction wraps to u32::MAX, which is above every self.seq of the model.
OrderListInsert(o, packet) ==
    LET prev == packet.sequence - 1
    IN IF packet.sequence = 0 \/ o.seq < prev
       THEN [o |-> [o EXCEPT !.list = MapPut(@, packet.sequence, packet)],
             res |-> "Err1", packets |-> <<>>]
       ELSE IF o.seq = prev
       THEN OrderListDrain([o EXCEPT !.seq = @ + 1], <<packet>>)
       ELSE [o |-> o, res |-> "Err0", packets |-> <<>>]


(***************************************************************************)
(* util.rs : xor, and abstractions of the RSA identity (identity/mod.rs)   *)
(* and of the AES-GCM cipher (encryption/mod.rs).  A key pair is named by  *)
(* its owner; a ciphertext names the key it was made with and is no        *)
(* plaintext.                                                              *)
(***************************************************************************)
RECURSIVE XorBits(_, _, _)
XorBits(x, y, n) ==
    IF n = 0 THEN 0
    ELSE (IF x % 2 = y % 2 THEN 0 ELSE 1) + 2 * XorBits(x \div 2, y \div 2, n - 1)

\* a variant of util::xor that keeps the left operand
xorKeepLeft(lhs, rhs) == lhs

\* util::xor : lhs.iter().zip(rhs).map(|(x, y)| x ^ y)
xor(lhs, rhs) ==
    [i \in 1..(IF Len(lhs) < Len(rhs) THEN Len(lhs) ELSE Len(rhs)) |-> XorBits(lhs[i], rhs[i], 8)]

\* the byte that stands for the RSA key pair of a peer
KeyByte(owner) == IF owner = "A" THEN 65 ELSE 66

\* PublicId::public_encrypt with the public key of `owner`
public_encrypt(owner, from) ==
    <<KeyByte(owner)>> \o [i \in 1..Len(from) |-> (from[i] + KeyByte(owner)) % 256]

\* Id::private_decrypt with the private key of `owner` returns Err
private_decrypt_fails(owner, from) == from = <<>> \/ from[1] # KeyByte(owner)

\* Id::private_decrypt with the private key of `owner`
private_decrypt(owner, from) ==
    [i \in 1..(Len(from) - 1) |-> (from[i + 1] + 256 - KeyByte(owner)) % 256]

RECURSIVE SumBytes(_)
SumBytes(b) == IF b = <<>> THEN 0 ELSE Head(b) + SumBytes(Tail(b))

\* AetherCipher::new : key = sha256(shared_secret), here a one-byte digest
AetherCipherNew(shared_secret) == (31 * SumBytes(shared_secret) + 7) % 256

\* AetherCipher::encrypt_bytes and From<Encrypted> for Vec<u8> : tag, iv, cipher text
encrypt_bytes(key, plain_text, iv) ==
    <<(key + iv + SumBytes(plain_text)) % 256, iv>>
      \o [i \in 1..Len(plain_text) |-> (plain_text[i] + key + iv) % 256]

\* From<Vec<u8>> for Encrypted : drain(0..TAG_SIZE), drain(0..IV_SIZE) panic on short input
EncryptedParsePanics(bytes) == Len(bytes) < 2

\* the plain text a cipher text decrypts to under `key`
DecryptedText(key, bytes) ==
    [i \in 1..(Len(bytes) - 2) |-> (bytes[i + 2] + 512 - key - bytes[2]) % 256]

\* AetherCipher::decrypt_bytes returns Err: the tag does not authenticate the text
decrypt_bytes_fails(key, bytes) ==
    bytes[1] # (key + bytes[2] + SumBytes(DecryptedText(key, bytes))) % 256

\* AetherCipher::decrypt_bytes
decrypt_bytes(key, bytes) == DecryptedText(key, bytes)

(***************************************************************************)
(* The state of the two links (link/mod.rs : Link), their workers          *)
(* (sendthread.rs, receivethread.rs, decryptionthread.rs), the network,    *)
(* the applications and the handshakes (peer/handshake.rs).                *)
(***************************************************************************)
VARIABLES
    stop_flag,      \* Link.stop_flag
    batch_empty,    \* Link.batch_empty (SendThread.is_empty)
    send_seq,       \* Link.send_seq
    recv_seq,       \* Link.recv_seq
    primary_queue,  \* Link.primary_queue
    batch_queue,    \* SendThread.batch_queue
    ack_check,      \* Link.ack_check
    ack_list,       \* Link.ack_list
    order_list,     \* ReceiveThread.order_list
    receive_queue,  \* Link.receive_queue
    output_queue,   \* Link.output_queue
    cipher,         \* Link.cipher: <<>> for None, else <<key>>
    thread_handles, \* Link.thread_handles
    sendT,          \* the send worker: "none", "run", "fetched", "done"
    recvT,          \* the receive worker: "none", "run", "done", "panicked"
    decT,           \* the decrypt worker: "none", "run", "done", "panicked"
    elapsed,        \* socket read timeouts since the last datagram (now.elapsed())
    chan,           \* chan[l]: the datagrams in flight towards peer l
    app,            \* the application's call in progress: "idle", "recv", "wait", "stop", "enc"
    own_secret,     \* own_secret of the enable_encryption call in progress
    pending,        \* the packets of send_packet calls between drop(seq_lock) and the push
    result,         \* the result of the application's last call of each operation
    sent,           \* history: the payloads passed to send(), in call order
    delivered,      \* history: the payloads returned by recv(), in call order
    retry,          \* history of the send worker's passes over the current window
    hs              \* the handshake run of each peer

vars == <<stop_flag, batch_empty, send_seq, recv_seq, primary_queue, batch_queue, ack_check,
          ack_list, order_list, receive_queue, output_queue, cipher, thread_handles,
          sendT, recvT, decT, elapsed, chan, app, own_secret, pending, result, sent,
          delivered, retry, hs>>

sendSide == <<batch_empty, send_seq, primary_queue, batch_queue>>

recvSide == <<recv_seq, ack_list, order_list, receive_queue, elapsed>>

encSide == <<output_queue, cipher, decT, own_secret, pending>>

history == <<sent, delivered, retry>>

linkVars == <<stop_flag, sendSide, ack_check, recvSide, output_queue, cipher,
              thread_handles, sendT, recvT, decT>>

NoResult == [send |-> "none", recv |-> "none", wait |-> "none", stop |-> "none",
             enc |-> "none", auth |-> "none"]

NoRetry == [passes |-> 0, no_progress |-> 0, progressed |-> FALSE, exhausted |-> FALSE]

\* a handshake that has not been called
NoHandshake == [pc |-> "none", seq |-> 0, recv_seq |-> 0, ack |-> FALSE, polls |-> 0]

\* Link::new(id, socket, peer_addr, peer_id, send_seq, recv_seq, config) on both peers
Init ==
    /\ stop_flag = [l \in Peers |-> FALSE]
    /\ batch_empty = [l \in Peers |-> FALSE]
    /\ send_seq = [l \in Peers |-> InitSeq(l)]
    /\ recv_seq = [l \in Peers |-> InitSeq(Other(l))]
    /\ primary_queue = [l \in Peers |-> <<>>]
    /\ batch_queue = [l \in Peers |-> <<>>]
    /\ ack_check = [l \in Peers |-> AckCheckNew(InitSeq(l))]
    /\ ack_list = [l \in Peers |-> AckListNew(InitSeq(Other(l)))]
    /\ order_list = [l \in Peers |-> OrderListNew(InitSeq(Other(l)))]
    /\ receive_queue = [l \in Peers |-> <<>>]
    /\ output_queue = [l \in Peers |-> <<>>]
    /\ cipher = [l \in Peers |-> <<>>]
    /\ thread_handles = [l \in Peers |-> <<>>]
    /\ sendT = [l \in Peers |-> "none"]
    /\ recvT = [l \in Peers |-> "none"]
    /\ decT = [l \in Peers |-> "none"]
    /\ elapsed = [l \in Peers |-> 0]
    /\ chan = [l \in Peers |-> {}]
    /\ app = [l \in Peers |-> "idle"]
    /\ own_secret = [l \in Peers |-> <<>>]
    /\ pending = [l \in Peers |-> {}]
    /\ result = [l \in Peers |-> NoResult]
    /\ sent = [l \in Peers |-> <<>>]
    /\ delivered = [l \in Peers |-> <<>>]
    /\ retry = [l \in Peers |-> NoRetry]
    /\ hs = [l \in Peers |-> NoHandshake]

(***************************************************************************)
(* The network: socket.send_to hands a datagram to the network, which      *)
(* keeps it in flight (when it holds MaxChan datagrams it drops one to     *)
(* make room); a datagram in flight is lost, or received any number of     *)
(* times, in any order.                                                    *)
(***************************************************************************)
Transmit(from, data) ==
    LET to == Other(from)
    IN IF data \in chan[to] \/ Cardinality(chan[to]) < MaxChan
       THEN chan' = [chan EXCEPT ![to] = @ \cup {data}]
       ELSE \E old \in chan[to] : chan' = [chan EXCEPT ![to] = (@ \ {old}) \cup {data}]

Receive(l, data) ==
    \/ chan' = [chan EXCEPT ![l] = @ \ {data}]
    \/ chan' = chan

\* the network loses a datagram in flight towards peer l
Lose(l, data) ==
    /\ data \in chan[l]
    /\ chan' = [chan EXCEPT ![l] = @ \ {data}]
    /\ UNCHANGED <<stop_flag, batch_empty, send_seq, recv_seq, primary_queue, batch_queue,
                   ack_check, ack_list, order_list, receive_queue, output_queue, cipher,
                   thread_handles, sendT, recvT, decT, elapsed, app, own_secret, pending, result,
                   sent, delivered, retry, hs>>

(***************************************************************************)
(* link/mod.rs : Link::start                                               *)
(***************************************************************************)
Start(l) ==
    /\ app[l] = "idle"
    /\ sendT[l] = "none"
    /\ sendT' = [sendT EXCEPT ![l] = "run"]
    /\ recvT' = [recvT EXCEPT ![l] = "run"]
    /\ thread_handles' = [thread_handles EXCEPT ![l] = @ \o <<"send", "recv">>]
    /\ UNCHANGED <<stop_flag, sendSide, ack_check, recvSide, encSide, chan, app,
                   result, history, hs>>

(***************************************************************************)
(* link/sendthread.rs : SendThread::start, one iteration of the loop       *)
(***************************************************************************)
\* a marker that is not flagged as meta
MetaPacketUnmarked(retry_count, delay_ms) == PacketNew("Extended", 0)

MetaPacket(retry_count, delay_ms) ==
    PacketSetMeta(PacketNew("Extended", 0), [retry_count |-> retry_count, delay_ms |-> delay_ms])

\* a keepalive that takes the sequence after the current one
AckPacketNext(l) == PacketNew("AckOnly", send_seq[l] + 1)

\* SendThread::ack_packet
AckPacket(l) == PacketNew("AckOnly", send_seq[l])

\* a variant of SendThread::check_ack that takes every packet for acknowledged
SendCheckAckAlways(l, packet) == needs_ack(packet)

\* SendThread::check_ack
SendCheckAck(l, packet) == needs_ack(packet) /\ AckCheckCheck(ack_check[l], packet.sequence)

\* an add_ack that keeps the summary a packet was stamped with before
SendAddAckOnce(l, packet) ==
    IF packet.flags.ack THEN packet ELSE PacketAddAck(packet, AckListGet(ack_list[l]))

\* SendThread::add_ack
SendAddAck(l, packet) == PacketAddAck(packet, AckListGet(ack_list[l]))

\* a variant of the test that allows one more retry
RetryExhaustedLate(retry_count) == retry_count > config.link.max_retries

\* the test that stops the connection after too many retries
RetryExhausted(retry_count) == retry_count >= config.link.max_retries

\* the stop flag is set: the loop breaks
SendExit(l) ==
    /\ sendT[l] = "run"
    /\ stop_flag[l]
    /\ sendT' = [sendT EXCEPT ![l] = "done"]
    /\ UNCHANGED <<stop_flag, sendSide, ack_check, recvSide, encSide, thread_handles,
                   recvT, chan, app, result, history, hs>>

\* Some(packet), packet.is_meta
SendMeta(l) ==
    /\ sendT[l] = "run"
    /\ ~stop_flag[l]
    /\ batch_queue[l] # <<>>
    /\ Head(batch_queue[l]).is_meta
    /\ LET packet == Head(batch_queue[l])
           rest == Tail(batch_queue[l])
           retry_count == packet.meta.retry_count + 1
       IN IF rest # <<>>
          THEN /\ IF RetryExhausted(retry_count)
                  THEN /\ stop_flag' = [stop_flag EXCEPT ![l] = TRUE]
                       /\ batch_queue' = [batch_queue EXCEPT ![l] = rest]
                  ELSE /\ stop_flag' = stop_flag
                       /\ batch_queue' = [batch_queue EXCEPT ![l] =
                              Append(rest, MetaPacket(retry_count, config.link.retry_delay))]
               /\ retry' = [retry EXCEPT ![l] =
                      [passes      |-> @.passes + 1,
                       no_progress |-> IF @.progressed THEN 0 ELSE @.no_progress + 1,
                       progressed  |-> FALSE,
                       exhausted   |-> RetryExhausted(retry_count)]]
          ELSE /\ batch_queue' = [batch_queue EXCEPT ![l] = rest]
               /\ UNCHANGED <<stop_flag, retry>>
    /\ UNCHANGED <<batch_empty, send_seq, primary_queue, ack_check, recvSide, encSide,
                   thread_handles, sendT, recvT, chan, app, result, sent, delivered,
                   hs>>

\* Some(packet), not a meta packet: dropped when acknowledged, else stamped and sent
SendPacket(l) ==
    /\ sendT[l] = "run"
    /\ ~stop_flag[l]
    /\ batch_queue[l] # <<>>
    /\ ~Head(batch_queue[l]).is_meta
    /\ LET packet == Head(batch_queue[l])
           rest == Tail(batch_queue[l])
           stamped == SendAddAck(l, packet)
       IN IF ~SendCheckAck(l, packet)
          THEN /\ Transmit(l, PacketCompile(stamped))
               /\ batch_queue' = [batch_queue EXCEPT ![l] =
                      IF needs_ack(stamped) THEN Append(rest, stamped) ELSE rest]
               /\ retry' = retry
          ELSE /\ batch_queue' = [batch_queue EXCEPT ![l] = rest]
               /\ retry' = [retry EXCEPT ![l].progressed = TRUE]
               /\ chan' = chan
    /\ UNCHANGED <<stop_flag, batch_empty, send_seq, primary_queue, ack_check, recvSide,
                   encSide, thread_handles, sendT, recvT, app, result, sent, delivered, hs>>

\* a fetch_window that moves all that waits in the primary queue
FetchCountAll(l) == Len(primary_queue[l])

\* the number of packets SendThread::fetch_window moves
FetchCount(l) ==
    IF Len(primary_queue[l]) < config.link.window_size
    THEN Len(primary_queue[l]) ELSE config.link.window_size

\* None: the batch is empty, fetch_window()
SendFetch(l) ==
    /\ sendT[l] = "run"
    /\ ~stop_flag[l]
    /\ batch_queue[l] = <<>>
    /\ batch_queue' = [batch_queue EXCEPT ![l] = SubSeq(primary_queue[l], 1, FetchCount(l))]
    /\ primary_queue' = [primary_queue EXCEPT ![l] =
           SubSeq(@, FetchCount(l) + 1, Len(@))]
    /\ sendT' = [sendT EXCEPT ![l] = "fetched"]
    /\ UNCHANGED <<stop_flag, batch_empty, send_seq, ack_check, recvSide, encSide,
                   thread_handles, recvT, chan, app, result, history, hs>>

\* None, after fetch_window(): the empty flag, the AckOnly packet, the meta packet
SendWindow(l) ==
    /\ sendT[l] = "fetched"
    /\ IF batch_queue[l] = <<>>
       THEN /\ batch_empty' = [batch_empty EXCEPT ![l] = TRUE]
            /\ batch_queue' = [batch_queue EXCEPT ![l] =
                   <<AckPacket(l), MetaPacket(-1, config.link.ack_only_time)>>]
       ELSE /\ batch_empty' = [batch_empty EXCEPT ![l] = FALSE]
            /\ batch_queue' = [batch_queue EXCEPT ![l] =
                   Append(@, MetaPacket(-1, config.link.retry_delay))]
    /\ sendT' = [sendT EXCEPT ![l] = "run"]
    /\ retry' = [retry EXCEPT ![l] = NoRetry]
    /\ UNCHANGED <<stop_flag, send_seq, primary_queue, ack_check, recvSide, encSide,
                   thread_handles, recvT, chan, app, result, sent, delivered, hs>>

(***************************************************************************)
(* link/receivethread.rs : ReceiveThread::start, one iteration of the loop *)
(***************************************************************************)
\* the stop flag is set: the loop breaks
RecvExit(l) ==
    /\ recvT[l] = "run"
    /\ stop_flag[l]
    /\ recvT' = [recvT EXCEPT ![l] = "done"]
    /\ UNCHANGED <<stop_flag, sendSide, ack_check, recvSide, encSide, thread_handles,
                   sendT, chan, app, result, history, hs>>

\* a variant of ReceiveThread::output that forwards no packet to the application
RecvOutputDiscard(l, packet) == [o |-> order_list[l], res |-> "Ok", packets |-> <<>>]

\* a variant of ReceiveThread::output that orders AckOnly packets like the others
RecvOutputAckOnly(l, packet) == OrderListInsert(order_list[l], packet)

\* ReceiveThread::output / order_output of a packet that is no duplicate
RecvOutput(l, packet) ==
    IF packet.flags.p_type = "AckOnly"
    THEN [o |-> order_list[l], res |-> "Ok", packets |-> <<>>]
    ELSE OrderListInsert(order_list[l], packet)

\* size > 0: a datagram was read from the socket
RecvDatagram(l, data) ==
    /\ recvT[l] = "run"
    /\ ~stop_flag[l]
    /\ data \in chan[l]
    /\ Len(data) > 0
    /\ Receive(l, data)
    /\ elapsed' = [elapsed EXCEPT ![l] = 0]
    /\ IF PacketParsePanics(data)
       THEN /\ recvT' = [recvT EXCEPT ![l] = "panicked"]
            /\ UNCHANGED <<ack_check, ack_list, order_list, receive_queue>>
       ELSE LET packet == PacketParse(data)
                exists == AckListCheck(ack_list[l], packet.sequence)
                out == RecvOutput(l, packet)
            IN /\ ack_check' = [ack_check EXCEPT ![l] = AckCheckAcknowledge(@, packet.ack)]
               /\ IF needs_ack(packet) /\ AckListInsertPanics(ack_list[l], packet.sequence)
                  THEN /\ recvT' = [recvT EXCEPT ![l] = "panicked"]
                       /\ UNCHANGED <<ack_list, order_list, receive_queue>>
                  ELSE /\ ack_list' = [ack_list EXCEPT ![l] =
                              IF needs_ack(packet) THEN AckListInsert(@, packet.sequence) ELSE @]
                       /\ IF exists
                          THEN UNCHANGED <<order_list, receive_queue, recvT>>
                          ELSE /\ order_list' = [order_list EXCEPT ![l] = out.o]
                               /\ receive_queue' = [receive_queue EXCEPT ![l] = @ \o out.packets]
                               /\ recvT' = [recvT EXCEPT ![l] =
                                      IF out.res = "Err0" THEN "panicked" ELSE @]
    /\ UNCHANGED <<stop_flag, sendSide, recv_seq, encSide, thread_handles, sendT, app,
                   result, history, hs>>

\* size = 0: the socket read timed out; the link times out when idle for too long
RecvNothing(l) ==
    /\ recvT[l] = "run"
    /\ ~stop_flag[l]
    /\ LET e == IF elapsed[l] <= config.link.timeout THEN elapsed[l] + 1 ELSE elapsed[l]
       IN /\ elapsed' = [elapsed EXCEPT ![l] = e]
          /\ stop_flag' = [stop_flag EXCEPT ![l] = e > config.link.timeout]
    /\ UNCHANGED <<sendSide, ack_check, recv_seq, ack_list, order_list, receive_queue,
                   encSide, thread_handles, sendT, recvT, chan, app, result, history,
                   hs>>

(***************************************************************************)
(* link/decryptionthread.rs : DecryptionThread::start, one iteration       *)
(***************************************************************************)
\* Ok(packet): the payload is decrypted and the packet forwarded, then the flag is read
DecPacket(l) ==
    /\ decT[l] = "run"
    /\ receive_queue[l] # <<>>
    /\ LET packet == Head(receive_queue[l])
           key == cipher[l][1]
       IN /\ receive_queue' = [receive_queue EXCEPT ![l] = Tail(@)]
          /\ IF EncryptedParsePanics(packet.payload)
                \/ decrypt_bytes_fails(key, packet.payload)
             THEN /\ decT' = [decT EXCEPT ![l] = "panicked"]
                  /\ output_queue' = output_queue
             ELSE /\ output_queue' = [output_queue EXCEPT ![l] =
                         Append(@, [packet EXCEPT !.payload = decrypt_bytes(key, @),
                                                  !.flags.enc = FALSE])]
                  /\ decT' = [decT EXCEPT ![l] = IF stop_flag[l] THEN "done" ELSE @]
    /\ UNCHANGED <<stop_flag, sendSide, ack_check, recv_seq, ack_list, order_list, elapsed,
                   cipher, own_secret, pending, thread_handles, sendT, recvT, chan, app, result,
                   history, hs>>

\* Err(Timeout) and the stop flag is set: the loop breaks
DecExit(l) ==
    /\ decT[l] = "run"
    /\ receive_queue[l] = <<>>
    /\ stop_flag[l]
    /\ decT' = [decT EXCEPT ![l] = "done"]
    /\ UNCHANGED <<stop_flag, sendSide, ack_check, recvSide, output_queue, cipher,
                   own_secret, pending, thread_handles, sendT, recvT, chan, app, result,
                   history, hs>>

(***************************************************************************)
(* link/mod.rs : the operations of Link the application calls              *)
(***************************************************************************)
\* Link::send_packet(packet)
send_packet(l, packet) ==
    /\ send_seq' = [send_seq EXCEPT ![l] = @ + 1]
    /\ primary_queue' = [primary_queue EXCEPT ![l] =
           Append(@, [packet EXCEPT !.sequence = send_seq[l] + 1])]

\* a send that sets the enc flag but leaves the payload as the application gave it
SendDataPlain(l, buf, iv) ==
    IF cipher[l] # <<>>
    THEN PacketAppendPayload(PacketSetEnc(PacketNew("Data", 0), TRUE), buf)
    ELSE PacketAppendPayload(PacketNew("Data", 0), buf)

\* the packet Link::send(buf) builds: the payload is encrypted if a cipher is present
SendData(l, buf, iv) ==
    IF cipher[l] # <<>>
    THEN PacketAppendPayload(PacketSetEnc(PacketNew("Data", 0), TRUE),
                             encrypt_bytes(cipher[l][1], buf, iv))
    ELSE PacketAppendPayload(PacketNew("Data", 0), buf)

\* Link::send(buf)
Send(l, buf) ==
    /\ app[l] = "idle"
    /\ Len(sent[l]) < MaxSend
    /\ \E iv \in IVs : send_packet(l, SendData(l, buf, iv))
    /\ result' = [result EXCEPT ![l].send = "Ok"]
    /\ sent' = [sent EXCEPT ![l] = Append(@, buf)]
    /\ UNCHANGED <<stop_flag, batch_empty, batch_queue, ack_check, recvSide, encSide,
                   thread_handles, sendT, recvT, chan, app, delivered, retry, hs>>

\* Link::get_receiver: the queue recv() reads
Receiver(l) == IF cipher[l] # <<>> THEN output_queue[l] ELSE receive_queue[l]

\* Link::recv with no read timeout: get_receiver()
RecvCall(l) ==
    /\ app[l] = "idle"
    /\ IF stop_flag[l]
       THEN /\ result' = [result EXCEPT ![l].recv = "LinkStopped"]
            /\ app' = app
       ELSE /\ result' = result
            /\ app' = [app EXCEPT ![l] = "recv"]
    /\ UNCHANGED <<linkVars, elapsed, chan, own_secret, pending, history, hs>>

\* Link::recv with no read timeout: receiver.recv() returns a packet
RecvReturn(l) ==
    /\ app[l] = "recv"
    /\ Receiver(l) # <<>>
    /\ delivered' = [delivered EXCEPT ![l] = Append(@, Head(Receiver(l)).payload)]
    /\ IF cipher[l] # <<>>
       THEN /\ output_queue' = [output_queue EXCEPT ![l] = Tail(@)]
            /\ receive_queue' = receive_queue
       ELSE /\ receive_queue' = [receive_queue EXCEPT ![l] = Tail(@)]
            /\ output_queue' = output_queue
    /\ result' = [result EXCEPT ![l].recv = "Ok"]
    /\ app' = [app EXCEPT ![l] = "idle"]
    /\ UNCHANGED <<stop_flag, sendSide, ack_check, recv_seq, ack_list, order_list, elapsed,
                   cipher, decT, own_secret, pending, thread_handles, sendT, recvT, chan, sent,
                   retry, hs>>

\* Link::is_empty
IsEmpty(l) == IF primary_queue[l] = <<>> THEN batch_empty[l] ELSE FALSE

\* Link::wait_empty is called
WaitCall(l) ==
    /\ app[l] = "idle"
    /\ app' = [app EXCEPT ![l] = "wait"]
    /\ UNCHANGED <<linkVars, elapsed, chan, own_secret, pending, result, history, hs>>

\* Link::wait_empty: the round of its loop that finds the link empty and returns
WaitReturn(l) ==
    /\ app[l] = "wait"
    /\ IsEmpty(l)
    /\ app' = [app EXCEPT ![l] = "idle"]
    /\ result' = [result EXCEPT ![l].wait = "Ok"]
    /\ UNCHANGED <<linkVars, elapsed, chan, own_secret, pending, history, hs>>

\* a variant of handle.join() that does not wait for the worker
TerminatedOrNot(l, handle) == handle \in {"send", "recv", "dec"}

\* the worker behind a join handle has terminated
Terminated(l, handle) ==
    CASE handle = "send" -> sendT[l] = "done"
      [] handle = "recv" -> recvT[l] \in {"done", "panicked"}
      [] handle = "dec" -> decT[l] \in {"done", "panicked"}

\* handle.join() returns Err: the worker panicked
Panicked(l, handle) ==
    CASE handle = "send" -> FALSE
      [] handle = "recv" -> recvT[l] = "panicked"
      [] handle = "dec" -> decT[l] = "panicked"

\* Link::stop is called: the stop flag is set
StopCall(l) ==
    /\ app[l] = "idle"
    /\ stop_flag' = [stop_flag EXCEPT ![l] = TRUE]
    /\ app' = [app EXCEPT ![l] = "stop"]
    /\ UNCHANGED <<sendSide, ack_check, recvSide, encSide, thread_handles, sendT, recvT,
                   chan, result, history, hs>>

\* Link::stop: thread_handles.pop() and handle.join() of a terminated worker
StopJoin(l) ==
    /\ app[l] = "stop"
    /\ thread_handles[l] # <<>>
    /\ LET handle == thread_handles[l][Len(thread_handles[l])]
       IN /\ Terminated(l, handle)
          /\ thread_handles' = [thread_handles EXCEPT ![l] = SubSeq(@, 1, Len(@) - 1)]
          /\ IF Panicked(l, handle)
             THEN /\ app' = [app EXCEPT ![l] = "idle"]
                  /\ result' = [result EXCEPT ![l].stop = "panic"]
             ELSE UNCHANGED <<app, result>>
    /\ UNCHANGED <<stop_flag, sendSide, ack_check, recvSide, encSide, sendT, recvT, chan,
                   history, hs>>

\* Link::stop: no handle is left, Ok(())
StopReturn(l) ==
    /\ app[l] = "stop"
    /\ thread_handles[l] = <<>>
    /\ app' = [app EXCEPT ![l] = "idle"]
    /\ result' = [result EXCEPT ![l].stop = "Ok"]
    /\ UNCHANGED <<linkVars, elapsed, chan, own_secret, pending, history, hs>>

\* Link::enable_encryption: the secret is sent, then recv() is called
EncCall(l, secret) ==
    /\ app[l] = "idle"
    /\ cipher[l] = <<>>
    /\ send_packet(l, PacketAppendPayload(PacketNew("KeyExchange", 0),
                                          public_encrypt(Other(l), secret)))
    /\ IF stop_flag[l]
       THEN /\ result' = [result EXCEPT ![l].enc = "LinkStopped"]
            /\ UNCHANGED <<app, own_secret, pending>>
       ELSE /\ app' = [app EXCEPT ![l] = "enc"]
            /\ own_secret' = [own_secret EXCEPT ![l] = secret]
            /\ UNCHANGED pending
            /\ result' = result
    /\ UNCHANGED <<stop_flag, batch_empty, batch_queue, ack_check, recvSide, output_queue,
                   cipher, decT, thread_handles, sendT, recvT, chan, history, hs>>

\* Link::enable_encryption: recv() returns the peer's secret, the decrypt worker is spawned
EncReturn(l) ==
    /\ app[l] = "enc"
    /\ receive_queue[l] # <<>>
    /\ receive_queue' = [receive_queue EXCEPT ![l] = Tail(@)]
    /\ LET other_encrypted == Head(receive_queue[l]).payload
       IN IF private_decrypt_fails(l, other_encrypted)
          THEN /\ result' = [result EXCEPT ![l].enc = "Err"]
               /\ UNCHANGED <<cipher, decT, thread_handles>>
          ELSE /\ cipher' = [cipher EXCEPT ![l] =
                      <<AetherCipherNew(xor(own_secret[l], private_decrypt(l, other_encrypted)))>>]
               /\ decT' = [decT EXCEPT ![l] = "run"]
               /\ thread_handles' = [thread_handles EXCEPT ![l] = Append(@, "dec")]
               /\ result' = [result EXCEPT ![l].enc = "Ok"]
    /\ app' = [app EXCEPT ![l] = "idle"]
    /\ own_secret' = [own_secret EXCEPT ![l] = <<>>]
    /\ UNCHANGED pending
    /\ UNCHANGED <<stop_flag, sendSide, ack_check, recv_seq, ack_list, order_list, elapsed,
                   output_queue, sendT, recvT, chan, history, hs>>

(***************************************************************************)
(* peer/authentication.rs : authenticate(link, ...).  The nonce is the     *)
(* first payload the function sends, so it is sent[l][1].                  *)
(***************************************************************************)
\* link.recv_timeout(recv_timeout) is entered: get_receiver reads the stop flag
AuthEnterRecv(l, pc) ==
    IF stop_flag[l]
    THEN /\ result' = [result EXCEPT ![l].auth = "LinkStopped"]
         /\ app' = [app EXCEPT ![l] = "idle"]
    ELSE /\ result' = result
         /\ app' = [app EXCEPT ![l] = pc]

\* the packet link.recv_timeout takes from the receiver is removed from its queue
AuthTake(l) ==
    /\ Receiver(l) # <<>>
    /\ delivered' = [delivered EXCEPT ![l] = Append(@, Head(Receiver(l)).payload)]
    /\ IF cipher[l] # <<>>
       THEN /\ output_queue' = [output_queue EXCEPT ![l] = Tail(@)]
            /\ receive_queue' = receive_queue
       ELSE /\ receive_queue' = [receive_queue EXCEPT ![l] = Tail(@)]
            /\ output_queue' = output_queue

\* authenticate is called: nonce = gen_nonce(32); link.send(nonce); recv_timeout
AuthCall(l, nonce) ==
    /\ app[l] = "idle"
    /\ result[l].auth = "none"
    /\ sent[l] = <<>>
    /\ \E iv \in IVs : send_packet(l, SendData(l, nonce, iv))
    /\ sent' = [sent EXCEPT ![l] = Append(@, nonce)]
    /\ AuthEnterRecv(l, "auth1")
    /\ UNCHANGED <<stop_flag, batch_empty, batch_queue, ack_check, recvSide, encSide,
                   thread_handles, sendT, recvT, chan, delivered, retry, hs>>

\* nonce_enc is received: link.send(nonce_enc); recv_timeout
AuthEcho(l) ==
    /\ app[l] = "auth1"
    /\ AuthTake(l)
    /\ LET nonce_enc == Head(Receiver(l)).payload
       IN /\ \E iv \in IVs : send_packet(l, SendData(l, nonce_enc, iv))
          /\ sent' = [sent EXCEPT ![l] = Append(@, nonce_enc)]
    /\ AuthEnterRecv(l, "auth2")
    /\ UNCHANGED <<stop_flag, batch_empty, batch_queue, ack_check, recv_seq, ack_list,
                   order_list, elapsed, cipher, decT, own_secret, pending, thread_handles, sendT,
                   recvT, chan, retry, hs>>

\* either recv_timeout ends with RecvTimeout: AuthenticationFailed
AuthTimeout(l) ==
    /\ app[l] \in {"auth1", "auth2"}
    /\ Receiver(l) = <<>>
    /\ app' = [app EXCEPT ![l] = "idle"]
    /\ result' = [result EXCEPT ![l].auth = "AuthenticationFailed"]
    /\ UNCHANGED <<linkVars, elapsed, chan, own_secret, pending, history, hs>>

\* nonce_recv is received and compared with the nonce
AuthCompare(l) ==
    /\ app[l] = "auth2"
    /\ AuthTake(l)
    /\ LET nonce == sent[l][1]
           nonce_recv == Head(Receiver(l)).payload
       IN result' = [result EXCEPT ![l].auth =
              IF nonce = nonce_recv THEN "Authenticated" ELSE "AuthenticationInvalid"]
    /\ app' = [app EXCEPT ![l] = "idle"]
    /\ UNCHANGED <<stop_flag, sendSide, ack_check, recv_seq, ack_list, order_list, elapsed,
                   cipher, decT, own_secret, pending, thread_handles, sendT, recvT, chan, sent,
                   retry, hs>>

(***************************************************************************)
(* peer/handshake.rs : handshake.  Its two loops send, then read the       *)
(* socket; a run ends with a started Link or with HandshakeError.          *)
(***************************************************************************)
\* String::from_utf8(bytes) is Err: bytes is no well-formed UTF-8 (RFC 3629)
RECURSIVE from_utf8_fails(_)
from_utf8_fails(bytes) ==
    LET n == Len(bytes)
        Cont(i) == i <= n /\ bytes[i] >= 128 /\ bytes[i] <= 191
        Second(lo, hi) == n >= 2 /\ bytes[2] >= lo /\ bytes[2] <= hi
        b == bytes[1]
        width == IF b < 128 THEN 1
                 ELSE IF b >= 194 /\ b <= 223 /\ Cont(2) THEN 2
                 ELSE IF b = 224 /\ Second(160, 191) /\ Cont(3) THEN 3
                 ELSE IF b = 237 /\ Second(128, 159) /\ Cont(3) THEN 3
                 ELSE IF b >= 225 /\ b <= 239 /\ b # 237 /\ Cont(2) /\ Cont(3) THEN 3
                 ELSE IF b = 240 /\ Second(144, 191) /\ Cont(3) /\ Cont(4) THEN 4
                 ELSE IF b = 244 /\ Second(128, 143) /\ Cont(3) /\ Cont(4) THEN 4
                 ELSE IF b >= 241 /\ b <= 243 /\ Cont(2) /\ Cont(3) /\ Cont(4) THEN 4
                 ELSE 0
    IN IF n = 0 THEN FALSE
       ELSE IF width = 0 THEN TRUE
       ELSE from_utf8_fails(SubSeq(bytes, width + 1, n))

\* my_uid of a peer, as bytes
Uid(l) == <<KeyByte(l)>>

\* packet: the Initiation packet with the own sequence number and uid
HsPacket(l) == PacketAppendPayload(PacketNew("Initiation", hs[l].seq), Uid(l))

\* packet.add_ack(...): the Initiation packet that acknowledges recv_seq
HsAckPacket(l) ==
    PacketAddAck(HsPacket(l),
                 [ack_begin |-> hs[l].recv_seq, ack_end |-> 0, miss_count |-> 0, miss |-> <<>>])

\* the sequence number the handshake takes from a packet of the peer
HsRecvSeq(recved) == recved.sequence

\* loop 1 accepts a packet: it carries the uid of the peer
HsAccept1(l, recved) == recved.payload = Uid(Other(l))

\* ack of loop 1: the packet acknowledges the own sequence number
HsAcked(l, recved) == recved.flags.ack /\ recved.ack.ack_begin = hs[l].seq

\* loop 2 accepts a packet: uid, sequence number and acknowledgement all match
HsAccept2(l, recved) ==
    /\ recved.payload = Uid(Other(l))
    /\ recved.sequence = hs[l].recv_seq
    /\ recved.flags.ack
    /\ recved.ack.ack_begin = hs[l].seq

\* a variant of the call of Link::new with the two sequence numbers exchanged
HsLinkSwapped(l, seq, r_seq) ==
    /\ send_seq' = [send_seq EXCEPT ![l] = r_seq]
    /\ recv_seq' = [recv_seq EXCEPT ![l] = seq]
    /\ ack_check' = [ack_check EXCEPT ![l] = AckCheckNew(r_seq)]
    /\ ack_list' = [ack_list EXCEPT ![l] = AckListNew(seq)]
    /\ order_list' = [order_list EXCEPT ![l] = OrderListNew(seq)]
    /\ sendT' = [sendT EXCEPT ![l] = "run"]
    /\ recvT' = [recvT EXCEPT ![l] = "run"]
    /\ thread_handles' = [thread_handles EXCEPT ![l] = <<"send", "recv">>]

\* Link::new(private_id, socket, address, peer_id, seq, recv_seq, config); link.start()
HsLink(l, seq, r_seq) ==
    /\ send_seq' = [send_seq EXCEPT ![l] = seq]
    /\ recv_seq' = [recv_seq EXCEPT ![l] = r_seq]
    /\ ack_check' = [ack_check EXCEPT ![l] = AckCheckNew(seq)]
    /\ ack_list' = [ack_list EXCEPT ![l] = AckListNew(r_seq)]
    /\ order_list' = [order_list EXCEPT ![l] = OrderListNew(r_seq)]
    /\ sendT' = [sendT EXCEPT ![l] = "run"]
    /\ recvT' = [recvT EXCEPT ![l] = "run"]
    /\ thread_handles' = [thread_handles EXCEPT ![l] = <<"send", "recv">>]

\* the link variables a handshake step leaves alone when it builds no Link
HsNoLink ==
    UNCHANGED <<send_seq, recv_seq, ack_check, ack_list, order_list, sendT, recvT,
                thread_handles>>

\* the variables no handshake step changes
hsFrame == <<stop_flag, batch_empty, primary_queue, batch_queue, receive_queue, elapsed,
             encSide, app, result, history>>

\* handshake(private_id, socket, address, my_uid, peer_uid, config) is called
HsCall(l, seq) ==
    /\ hs[l].pc = "none"
    /\ sendT[l] = "none"
    /\ hs' = [hs EXCEPT ![l] = [NoHandshake EXCEPT !.pc = "send1", !.seq = seq]]
    /\ HsNoLink
    /\ UNCHANGED <<hsFrame, chan>>

\* an iteration of either loop: the timeout is checked, the own packet is sent
HsSend(l) ==
    /\ hs[l].pc \in {"send1", "send2"}
    /\ IF hs[l].polls > HsTimeout
       THEN /\ hs' = [hs EXCEPT ![l].pc = "failed"]
            /\ chan' = chan
       ELSE /\ Transmit(l, PacketCompile(IF hs[l].pc = "send1" THEN HsPacket(l)
                                                               ELSE HsAckPacket(l)))
            /\ hs' = [hs EXCEPT ![l].pc = IF @ = "send1" THEN "recv1" ELSE "recv2"]
    /\ HsNoLink
    /\ UNCHANGED hsFrame

\* socket.recv times out in either loop
HsRecvNothing(l) ==
    /\ hs[l].pc \in {"recv1", "recv2"}
    /\ hs' = [hs EXCEPT ![l].pc = IF @ = "recv1" THEN "send1" ELSE "send2",
                        ![l].polls = @ + 1]
    /\ HsNoLink
    /\ UNCHANGED <<hsFrame, chan>>

\* datagrams of other origin that reach the socket during the handshake: an
\* Initiation with another uid, and one whose payload is no UTF-8
Strays ==
    {PacketCompile(PacketAppendPayload(PacketNew("Initiation", 9), stray)) :
        stray \in {<<67>>, <<255>>}}

\* a datagram of other origin arrives at the socket of peer l
HsStray(l, data) ==
    /\ hs[l].pc \in {"send1", "recv1", "send2", "recv2"}
    /\ data \notin chan[l]
    /\ Transmit(Other(l), data)
    /\ UNCHANGED <<hs, hsFrame>>
    /\ HsNoLink

\* now.elapsed() grows while the handshake is in one of its loops
HsTick(l) ==
    /\ hs[l].pc \in {"send1", "recv1", "send2", "recv2"}
    /\ hs[l].polls <= HsTimeout
    /\ hs' = [hs EXCEPT ![l].polls = @ + 1]
    /\ HsNoLink
    /\ UNCHANGED <<hsFrame, chan>>

\* loop 1 reads a datagram
HsRecv1(l, data) ==
    /\ hs[l].pc = "recv1"
    /\ data \in chan[l]
    /\ Receive(l, data)
    /\ LET recved == PacketParse(data)
       IN IF from_utf8_fails(recved.payload)
          THEN /\ hs' = [hs EXCEPT ![l].pc = "failed"]
               /\ HsNoLink
          ELSE IF ~HsAccept1(l, recved)
          THEN /\ hs' = [hs EXCEPT ![l].pc = "send1"]
               /\ HsNoLink
          ELSE IF HsAcked(l, recved)
          THEN /\ hs' = [hs EXCEPT ![l].pc = "done", ![l].recv_seq = HsRecvSeq(recved),
                                   ![l].ack = TRUE]
               /\ HsLink(l, hs[l].seq, HsRecvSeq(recved))
          ELSE /\ hs' = [hs EXCEPT ![l].pc = "send2", ![l].recv_seq = HsRecvSeq(recved)]
               /\ HsNoLink
    /\ UNCHANGED hsFrame

\* loop 2 reads a datagram
HsRecv2(l, data) ==
    /\ hs[l].pc = "recv2"
    /\ data \in chan[l]
    /\ Receive(l, data)
    /\ IF from_utf8_fails(PacketParse(data).payload)
       THEN /\ hs' = [hs EXCEPT ![l].pc = "failed"]
            /\ HsNoLink
       ELSE IF HsAccept2(l, PacketParse(data))
       THEN /\ hs' = [hs EXCEPT ![l].pc = "done"]
            /\ HsLink(l, hs[l].seq, hs[l].recv_seq)
       ELSE /\ hs' = [hs EXCEPT ![l].pc = "send2"]
            /\ HsNoLink
    /\ UNCHANGED hsFrame

(***************************************************************************)
(* The scenarios.  Every scenario starts from two constructed links.       *)
(***************************************************************************)
\* the peers whose application receives payloads
Receivers == {"B"}

\* one iteration of the send worker of link l
SendWorker(l) ==
    \/ SendExit(l)
    \/ SendMeta(l)
    \/ SendPacket(l)
    \/ SendFetch(l)
    \/ SendWindow(l)

\* one iteration of the receive worker of link l
\* the size = 0 arm of the loop taken for a datagram of length zero, which recv returns
\* as Ok(0): now is not reset.  elapsed counts whole read timeouts, so the time since now
\* is above config.link.timeout when elapsed is, and may be when elapsed equals it.
RecvEmpty(l, data) ==
    /\ recvT[l] = "run"
    /\ ~stop_flag[l]
    /\ data \in chan[l]
    /\ Len(data) = 0
    /\ Receive(l, data)
    /\ \/ /\ elapsed[l] >= config.link.timeout
          /\ stop_flag' = [stop_flag EXCEPT ![l] = TRUE]
       \/ /\ elapsed[l] <= config.link.timeout
          /\ stop_flag' = stop_flag
    /\ UNCHANGED <<sendSide, ack_check, recvSide, encSide, thread_handles, sendT, recvT,
                   app, result, history, hs>>

RecvWorker(l) ==
    \/ RecvExit(l)
    \/ \E data \in chan[l] : RecvDatagram(l, data)
    \/ RecvNothing(l)

\* one iteration of the decrypt worker of link l
DecWorker(l) ==
    \/ DecPacket(l)
    \/ DecExit(l)

\* the application of a sending peer passes a payload it has not sent before
SendNew(l) ==
    /\ l \in Senders
    /\ \E buf \in Payloads \ SeqToSet(sent[l]) : Send(l, buf)

(***************************************************************************)
(* The transfer scenario: both links are started, A's application sends    *)
(* and B's application receives.                                           *)
(***************************************************************************)
Next ==
    \E l \in Peers :
        \/ Start(l)
        \/ SendWorker(l)
        \/ RecvWorker(l)
        \/ SendNew(l)
        \/ l \in Receivers /\ RecvCall(l)
        \/ RecvReturn(l)
        \/ \E data \in chan[l] : Lose(l, data)

Spec == Init /\ [][Next]_vars

(***************************************************************************)
(* The delivery scenario: the transfer of one payload, with every thread   *)
(* of the two links scheduled again and again.                             *)
(***************************************************************************)
NextDeliver ==
    \E l \in Peers :
        \/ Start(l)
        \/ SendWorker(l)
        \/ RecvWorker(l)
        \/ sent[l] = <<>> /\ SendNew(l)
        \/ l \in Receivers /\ RecvCall(l)
        \/ RecvReturn(l)
        \/ \E data \in chan[l] : Lose(l, data)

SpecDeliver == Init /\ [][NextDeliver]_vars

\* the links are started, every worker and the receiving application keep being
\* scheduled; the steps of one thread are never enabled together
Fairness ==
    /\ \A l \in Peers : WF_vars(Start(l) \/ SendWorker(l)) /\ WF_vars(RecvWorker(l))
    /\ \A l \in Receivers : WF_vars(RecvCall(l) \/ RecvReturn(l))

FairDeliver == SpecDeliver /\ Fairness

(***************************************************************************)
(* The scenarios of one link.  The application of link Lone uses the       *)
(* interface; its peer is an honest link, represented by the datagrams it  *)
(* can have sent.                                                          *)
(***************************************************************************)
Lone == "A"

\* the packets of link l the peer can have received and acknowledges: they were
\* transmitted (stamped) and need an acknowledgement as the peer parses them
PeerReceived(l) ==
    {batch_queue[l][i].sequence : i \in
        {j \in 1..Len(batch_queue[l]) :
            /\ ~batch_queue[l][j].is_meta
            /\ batch_queue[l][j].flags.ack
            /\ needs_ack(PacketParse(PacketCompile(batch_queue[l][j])))}}
      \cup {seq \in (InitSeq(l) + 1)..send_seq[l] : AckCheckCheck(ack_check[l], seq)}

RECURSIVE AckListInsertAll(_, _, _, _)
AckListInsertAll(a, S, lo, hi) ==
    IF lo > hi THEN a
    ELSE AckListInsertAll(IF lo \in S THEN AckListInsert(a, lo) ELSE a, S, lo + 1, hi)

\* the acknowledgements the peer's AcknowledgementList can yield: it has received
\* nothing, or all that was transmitted
PeerAcks(l) ==
    {AckListGet(AckListInsertAll(AckListNew(InitSeq(l)), S, InitSeq(l) + 1, send_seq[l])) :
        S \in {{}, PeerReceived(l)}}

\* the secrets of link l the peer can have received in a KeyExchange packet
PeerKnows(l) ==
    {private_decrypt(Other(l), batch_queue[l][i].payload) : i \in
        {j \in 1..Len(batch_queue[l]) :
            /\ ~batch_queue[l][j].is_meta
            /\ batch_queue[l][j].flags.ack
            /\ batch_queue[l][j].flags.p_type = "KeyExchange"}}

\* the packets of a peer that sends one payload: AckOnly, Data
PeerPlain(l) ==
    {PacketNew("AckOnly", InitSeq(Other(l))),
     [PacketAppendPayload(PacketNew("Data", 0), PeerPayload)
         EXCEPT !.sequence = InitSeq(Other(l)) + 1]}

\* the packets of a peer that enables encryption and then sends one payload:
\* AckOnly, KeyExchange, encrypted Data
PeerEncrypted(l) ==
    {PacketNew("AckOnly", InitSeq(Other(l)))}
      \cup {[PacketAppendPayload(PacketNew("KeyExchange", 0), public_encrypt(l, PeerSecret))
                EXCEPT !.sequence = InitSeq(Other(l)) + 1]}
      \cup {[PacketAppendPayload(PacketSetEnc(PacketNew("Data", 0), TRUE),
                                 encrypt_bytes(AetherCipherNew(xor(PeerSecret, secret)),
                                               PeerPayload, iv))
                EXCEPT !.sequence = InitSeq(Other(l)) + 2] :
            secret \in PeerKnows(l), iv \in IVs}

\* a datagram of the peer gets in flight towards link l
PeerTransmit(l, packets) ==
    /\ \E packet \in packets, ack \in PeerAcks(l) :
          Transmit(Other(l), PacketCompile(PacketAddAck(packet, ack)))
    /\ UNCHANGED <<linkVars, elapsed, app, own_secret, pending, result, history, hs>>

(***************************************************************************)
(* The life-cycle scenario: the application sends one payload, receives,   *)
(* waits for the link to drain and stops the link.                         *)
(***************************************************************************)
NextLink ==
    \/ Start(Lone)
    \/ SendWorker(Lone)
    \/ RecvWorker(Lone)
    \/ PeerTransmit(Lone, PeerPlain(Lone))
    \/ \E data \in chan[Lone] : Lose(Lone, data)
    \/ sent[Lone] = <<>> /\ SendNew(Lone)
    \/ RecvCall(Lone)
    \/ RecvReturn(Lone)
    \/ WaitCall(Lone)
    \/ WaitReturn(Lone)
    \/ sendT[Lone] # "none" /\ StopCall(Lone)
    \/ StopJoin(Lone)
    \/ StopReturn(Lone)

SpecLink == Init /\ [][NextLink]_vars

\* the workers keep being scheduled, and a call that can return does return
FairnessLink ==
    /\ WF_vars(SendWorker(Lone)) /\ WF_vars(RecvWorker(Lone)) /\ WF_vars(DecWorker(Lone))
    /\ WF_vars(RecvReturn(Lone)) /\ SF_vars(WaitReturn(Lone)) /\ WF_vars(EncReturn(Lone))
    /\ WF_vars(StopJoin(Lone)) /\ WF_vars(StopReturn(Lone))

FairLink == SpecLink /\ FairnessLink

(***************************************************************************)
(* The encryption scenario: the application enables encryption, receives   *)
(* and stops the link.                                                     *)
(***************************************************************************)
NextEnc ==
    \/ Start(Lone)
    \/ SendWorker(Lone)
    \/ RecvWorker(Lone)
    \/ DecWorker(Lone)
    \/ PeerTransmit(Lone, PeerEncrypted(Lone))
    \/ \E data \in chan[Lone] : Lose(Lone, data)
    \/ result[Lone].enc = "none" /\ \E secret \in Secrets : EncCall(Lone, secret)
    \/ EncReturn(Lone)
    \/ RecvCall(Lone)
    \/ RecvReturn(Lone)
    \/ sendT[Lone] # "none" /\ StopCall(Lone)
    \/ StopJoin(Lone)
    \/ StopReturn(Lone)

SpecEnc == Init /\ [][NextEnc]_vars

FairEnc == SpecEnc /\ FairnessLink

(***************************************************************************)
(* The encrypted transfer scenario: the application enables encryption,    *)
(* then sends and receives.                                                *)
(***************************************************************************)
NextSecure ==
    \/ NextEnc
    \/ cipher[Lone] # <<>> /\ SendNew(Lone)

SpecSecure == Init /\ [][NextSecure]_vars

(***************************************************************************)
(* The tampering scenario: the second packet of the encrypting peer is     *)
(* changed or cut short on its way, a third one arrives as it was sent.    *)
(***************************************************************************)
\* the encrypted Data packets of the peer
PeerData(l) == {p \in PeerEncrypted(l) : p.flags.p_type = "Data"}

\* a payload whose tag was changed, and one shorter than tag and iv
Tampered(payload) ==
    {[payload EXCEPT ![1] = (@ + 1) % 256], SubSeq(payload, 1, 1)}

PeerTampered(l) ==
    UNION {{[p EXCEPT !.payload = payload] : payload \in Tampered(p.payload)} :
              p \in PeerData(l)}
      \cup {[p EXCEPT !.sequence = @ + 1] : p \in PeerData(l)}

NextTamper ==
    \/ NextEnc
    \/ PeerTransmit(Lone, PeerTampered(Lone))

SpecTamper == Init /\ [][NextTamper]_vars

(***************************************************************************)
(* The short datagram scenario: the life-cycle scenario, and datagrams too *)
(* short for the header, or for the miss list they announce, arrive.       *)
(***************************************************************************)
\* one byte; a header that announces one miss byte and ends there
Shorts == {<<0>>, compile_u32(0) \o compile_u32(0) \o <<0, 0, 1>>}

ShortArrives(l, data) ==
    /\ data \notin chan[l]
    /\ Transmit(Other(l), data)
    /\ UNCHANGED <<linkVars, elapsed, app, own_secret, pending, result, history, hs>>

NextShort ==
    \/ NextLink
    \/ \E data \in Shorts : ShortArrives(Lone, data)

SpecShort == Init /\ [][NextShort]_vars

(***************************************************************************)
(* The concurrent senders scenario: the transfer scenario, with every      *)
(* send() of A called by a thread of its own.  send_packet takes the       *)
(* sequence number under the send_seq lock, drops the lock and then pushes *)
(* the packet, so the calls interleave between the two steps.              *)
(***************************************************************************)
\* a variant that increments send_seq in a lock section of its own: an update is lost
SendSeqStale(l, buf) ==
    /\ send_seq' = [send_seq EXCEPT ![l] = IF pending[l] = {} THEN @ + 1 ELSE @]
    /\ \E iv \in IVs :
          pending' = [pending EXCEPT ![l] =
              @ \cup {[SendData(l, buf, iv) EXCEPT !.sequence = send_seq[l] + 1]}]
    /\ sent' = [sent EXCEPT ![l] = Append(@, buf)]
    /\ UNCHANGED <<stop_flag, batch_empty, primary_queue, batch_queue, ack_check, recvSide,
                   output_queue, cipher, decT, own_secret, thread_handles, sendT, recvT,
                   chan, app, result, delivered, retry, hs>>

\* Link::send(buf) and send_packet up to drop(seq_lock)
SendSeqLocked(l, buf) ==
    /\ send_seq' = [send_seq EXCEPT ![l] = @ + 1]
    /\ \E iv \in IVs :
          pending' = [pending EXCEPT ![l] =
              @ \cup {[SendData(l, buf, iv) EXCEPT !.sequence = send_seq[l] + 1]}]
    /\ sent' = [sent EXCEPT ![l] = Append(@, buf)]
    /\ UNCHANGED <<stop_flag, batch_empty, primary_queue, batch_queue, ack_check, recvSide,
                   output_queue, cipher, decT, own_secret, thread_handles, sendT, recvT,
                   chan, app, result, delivered, retry, hs>>

\* send_packet from packet.sequence = seq: the push onto the primary queue
SendPush(l, packet) ==
    /\ packet \in pending[l]
    /\ pending' = [pending EXCEPT ![l] = @ \ {packet}]
    /\ primary_queue' = [primary_queue EXCEPT ![l] = Append(@, packet)]
    /\ result' = [result EXCEPT ![l].send = "Ok"]
    /\ UNCHANGED <<stop_flag, batch_empty, send_seq, batch_queue, ack_check, recvSide,
                   output_queue, cipher, decT, own_secret, thread_handles, sendT, recvT,
                   chan, app, sent, delivered, retry, hs>>

NextConc ==
    \E l \in Peers :
        \/ Start(l)
        \/ SendWorker(l)
        \/ RecvWorker(l)
        \/ l \in Senders /\ Len(sent[l]) < MaxSend /\ SendSeqLocked(l, <<Len(sent[l]) + 1>>)
        \/ \E packet \in pending[l] : SendPush(l, packet)
        \/ l \in Receivers /\ RecvCall(l)
        \/ RecvReturn(l)
        \/ \E data \in chan[l] : Lose(l, data)

SpecConc == Init /\ [][NextConc]_vars

\* the scenario with MaxBurst threads that call send(); the application of the peer does
\* not call recv()
NextCrowd ==
    \E l \in Peers :
        \/ Start(l)
        \/ SendWorker(l)
        \/ RecvWorker(l)
        \/ l \in Senders /\ Len(sent[l]) < MaxBurst /\ SendSeqLocked(l, <<Len(sent[l]) + 1>>)
        \/ \E packet \in pending[l] : SendPush(l, packet)
        \/ \E data \in chan[l] : Lose(l, data)

SpecCrowd == Init /\ [][NextCrowd]_vars

(***************************************************************************)
(* The empty datagram scenario: the life-cycle scenario, and datagrams of  *)
(* length zero arrive at the socket of the link.                           *)
(***************************************************************************)
Empty == <<>>

NextEmpty ==
    \/ NextLink
    \/ ShortArrives(Lone, Empty)
    \/ \E data \in chan[Lone] : RecvEmpty(Lone, data)

SpecEmpty == Init /\ [][NextEmpty]_vars

(***************************************************************************)
(* The late handshake scenario: the transfer scenario, and datagrams of    *)
(* the handshake that made the links arrive when the links are running.    *)
(***************************************************************************)
\* the handshake datagrams of the peer of l: its sequence number and uid, without and
\* with the acknowledgement of the sequence number of l
LateHs(l) ==
    LET packet == PacketAppendPayload(PacketNew("Initiation", InitSeq(Other(l))),
                                      Uid(Other(l)))
    IN {PacketCompile(packet),
        PacketCompile(PacketAddAck(packet, [ack_begin |-> InitSeq(l), ack_end |-> 0,
                                            miss_count |-> 0, miss |-> <<>>]))}

NextLate ==
    \/ NextDeliver
    \/ \E l \in Peers : \E data \in LateHs(l) : ShortArrives(l, data)

SpecLate == Init /\ [][NextLate]_vars

(***************************************************************************)
(* The far sequence scenario: the life-cycle scenario, and a Data datagram *)
(* whose sequence is above the window of the AcknowledgementList arrives.  *)
(***************************************************************************)
Fars(l) ==
    {PacketCompile(PacketAppendPayload(
         PacketNew("Data", ack_list[l].ack_begin + MAX_WINDOW + 1), PeerPayload))}

NextFar ==
    \/ NextLink
    \/ \E data \in Fars(Lone) : ShortArrives(Lone, data)

SpecFar == Init /\ [][NextFar]_vars

(***************************************************************************)
(* The codec scenario: a packet is compiled (packet.rs : Packet::compile)  *)
(* and the bytes are parsed (From<Vec<u8>> for Packet).                    *)
(***************************************************************************)
PTypes == {"Data", "AckOnly", "Initiation", "KeyExchange", "Extended"}

\* acknowledgement summaries with miss_count = |miss|
CodecAcks ==
    {NoAck,
     [ack_begin |-> 258, ack_end |-> 3, miss_count |-> 1, miss |-> <<2>>],
     [ack_begin |-> 16909060, ack_end |-> 255, miss_count |-> 2, miss |-> <<1, 255>>]}

\* the packets the scenario compiles
CodecPackets ==
    {[flags    |-> [p_type |-> p_type, ack |-> ack, enc |-> enc],
      sequence |-> sequence,
      ack      |-> summary,
      payload  |-> payload,
      is_meta  |-> FALSE,
      meta     |-> [delay_ms |-> 0, retry_count |-> 0]] :
        p_type \in PTypes, ack \in BOOLEAN, enc \in BOOLEAN,
        sequence \in {0, 16909060, 2147483647}, summary \in CodecAcks,
        payload \in {<<>>, <<7, 0>>}}

InitCodec ==
    /\ \E p \in CodecPackets :
          primary_queue = [l \in Peers |-> IF l = "A" THEN <<p>> ELSE <<>>]
    /\ stop_flag = [l \in Peers |-> FALSE]
    /\ batch_empty = [l \in Peers |-> FALSE]
    /\ send_seq = [l \in Peers |-> InitSeq(l)]
    /\ recv_seq = [l \in Peers |-> InitSeq(Other(l))]
    /\ batch_queue = [l \in Peers |-> <<>>]
    /\ ack_check = [l \in Peers |-> AckCheckNew(InitSeq(l))]
    /\ ack_list = [l \in Peers |-> AckListNew(InitSeq(Other(l)))]
    /\ order_list = [l \in Peers |-> OrderListNew(InitSeq(Other(l)))]
    /\ receive_queue = [l \in Peers |-> <<>>]
    /\ output_queue = [l \in Peers |-> <<>>]
    /\ cipher = [l \in Peers |-> <<>>]
    /\ thread_handles = [l \in Peers |-> <<>>]
    /\ sendT = [l \in Peers |-> "none"]
    /\ recvT = [l \in Peers |-> "none"]
    /\ decT = [l \in Peers |-> "none"]
    /\ elapsed = [l \in Peers |-> 0]
    /\ chan = [l \in Peers |-> {}]
    /\ app = [l \in Peers |-> "idle"]
    /\ own_secret = [l \in Peers |-> <<>>]
    /\ pending = [l \in Peers |-> {}]
    /\ result = [l \in Peers |-> NoResult]
    /\ sent = [l \in Peers |-> <<>>]
    /\ delivered = [l \in Peers |-> <<>>]
    /\ retry = [l \in Peers |-> NoRetry]
    /\ hs = [l \in Peers |-> NoHandshake]

\* packet.compile(): the bytes get in flight
CodecCompile ==
    /\ chan["B"] = {}
    /\ chan' = [chan EXCEPT !["B"] = {PacketCompile(primary_queue["A"][1])}]
    /\ UNCHANGED <<linkVars, elapsed, app, own_secret, pending, result, history, hs>>

\* Packet::from(bytes)
CodecParse ==
    /\ receive_queue["B"] = <<>>
    /\ \E data \in chan["B"] :
          /\ ~PacketParsePanics(data)
          /\ receive_queue' = [receive_queue EXCEPT !["B"] = <<PacketParse(data)>>]
    /\ UNCHANGED <<stop_flag, sendSide, ack_check, recv_seq, ack_list, order_list, elapsed,
                   encSide, thread_handles, sendT, recvT, chan, app, result, history, hs>>

NextCodec == CodecCompile \/ CodecParse

SpecCodec == InitCodec /\ [][NextCodec]_vars

(***************************************************************************)
(* The acknowledgement list scenario: sequences are inserted into the      *)
(* AcknowledgementList of "B" in any order, and its summary is handed to   *)
(* the AcknowledgementCheck of "A"; both start at the same sequence.       *)
(***************************************************************************)
AckSeqs == 0..MaxAck

\* ack_list.insert(seq), within the window
ListInsert(seq) ==
    /\ ~AckListInsertPanics(ack_list["B"], seq)
    /\ ack_list' = [ack_list EXCEPT !["B"] = AckListInsert(@, seq)]
    /\ UNCHANGED <<stop_flag, sendSide, ack_check, recv_seq, order_list, receive_queue,
                   elapsed, encSide, thread_handles, sendT, recvT, chan, app, result,
                   history, hs>>

\* ack_check.acknowledge(ack_list.get())
ListTransfer ==
    /\ ack_check' = [ack_check EXCEPT !["A"] = AckCheckAcknowledge(@, AckListGet(ack_list["B"]))]
    /\ UNCHANGED <<stop_flag, sendSide, recvSide, encSide, thread_handles, sendT, recvT,
                   chan, app, result, history, hs>>

NextAckList ==
    \/ \E seq \in AckSeqs : ListInsert(seq)
    \/ ListTransfer

SpecAckList == Init /\ [][NextAckList]_vars

(***************************************************************************)
(* The acknowledgement check scenario: sequences are inserted into the     *)
(* AcknowledgementCheck of "A" and acknowledgement summaries are merged    *)
(* into it, in any order.                                                  *)
(***************************************************************************)
\* the summaries merged: any begin and end, miss lists in and out of order, with the
\* offset 0 and with offsets above ack_end
Acks ==
    {[ack_begin |-> b, ack_end |-> e, miss_count |-> Len(miss), miss |-> miss] :
        b \in 0..3, e \in 0..3, miss \in {<<>>, <<0>>, <<1>>, <<2, 1>>, <<1, 3>>}}

\* ack_check.insert(seq)
CheckInsert(seq) ==
    /\ ack_check' = [ack_check EXCEPT !["A"] = AckCheckInsert(@, seq)]
    /\ UNCHANGED <<stop_flag, sendSide, recvSide, encSide, thread_handles, sendT, recvT,
                   chan, app, result, history, hs>>

\* ack_check.acknowledge(a)
CheckAcknowledge(a) ==
    /\ ack_check' = [ack_check EXCEPT !["A"] = AckCheckAcknowledge(@, a)]
    /\ UNCHANGED <<stop_flag, sendSide, recvSide, encSide, thread_handles, sendT, recvT,
                   chan, app, result, history, hs>>

NextAckCheck ==
    \/ \E seq \in AckSeqs : CheckInsert(seq)
    \/ \E a \in Acks : CheckAcknowledge(a)

SpecAckCheck == Init /\ [][NextAckCheck]_vars

(***************************************************************************)
(* The ordering scenario: packets with distinct sequences at or above the  *)
(* next expected one reach the OrderList of "B" in any order.              *)
(***************************************************************************)
\* the packet with sequence seq
OrderPacket(seq) == PacketAppendPayload(PacketNew("Data", seq), <<seq>>)

\* ReceiveThread::order_output(packet)
OrderOutput(seq) ==
    /\ seq > order_list["B"].seq
    /\ seq \notin DOMAIN order_list["B"].list
    /\ LET out == OrderListInsert(order_list["B"], OrderPacket(seq))
       IN /\ order_list' = [order_list EXCEPT !["B"] = out.o]
          /\ receive_queue' = [receive_queue EXCEPT !["B"] = @ \o out.packets]
          /\ recvT' = [recvT EXCEPT !["B"] = IF out.res = "Err0" THEN "panicked" ELSE @]
    /\ UNCHANGED <<stop_flag, sendSide, ack_check, recv_seq, ack_list, elapsed, encSide,
                   thread_handles, sendT, chan, app, result, history, hs>>

NextOrder == \E seq \in AckSeqs : OrderOutput(seq)

SpecOrder == Init /\ [][NextOrder]_vars

(***************************************************************************)
(* The window scenario: the application of one link sends more payloads    *)
(* than a window holds; the peer acknowledges and sends keepalives.        *)
(***************************************************************************)
\* Link::send(buf), up to MaxBurst times
SendBurst(l, buf) ==
    /\ app[l] = "idle"
    /\ Len(sent[l]) < MaxBurst
    /\ \E iv \in IVs : send_packet(l, SendData(l, buf, iv))
    /\ result' = [result EXCEPT ![l].send = "Ok"]
    /\ sent' = [sent EXCEPT ![l] = Append(@, buf)]
    /\ UNCHANGED <<stop_flag, batch_empty, batch_queue, ack_check, recvSide, encSide,
                   thread_handles, sendT, recvT, chan, app, delivered, retry, hs>>

\* the keepalive of the peer
PeerAckOnly(l) == {PacketNew("AckOnly", InitSeq(Other(l)))}

NextWindow ==
    \/ Start(Lone)
    \/ SendWorker(Lone)
    \/ RecvWorker(Lone)
    \/ PeerTransmit(Lone, PeerAckOnly(Lone))
    \/ \E data \in chan[Lone] : Lose(Lone, data)
    \/ SendBurst(Lone, <<Len(sent[Lone]) + 1>>)

SpecWindow == Init /\ [][NextWindow]_vars

(***************************************************************************)
(* The key exchange scenario: both links are started and both              *)
(* applications call enable_encryption.                                    *)
(***************************************************************************)
NextKeys ==
    \E l \in Peers :
        \/ Start(l)
        \/ SendWorker(l)
        \/ RecvWorker(l)
        \/ result[l].enc = "none" /\ \E secret \in Secrets : EncCall(l, secret)
        \/ EncReturn(l)
        \/ \E data \in chan[l] : Lose(l, data)

SpecKeys == Init /\ [][NextKeys]_vars

(***************************************************************************)
(* The authentication scenario: link Lone runs authenticate; the remote    *)
(* endpoint does not hold the private key of the uid it claims and sends   *)
(* only what it can build from its own bytes and from what it has read.    *)
(***************************************************************************)
\* the nonces authenticate can draw: none is the remote endpoint's own payload
Nonces == Payloads \ {PeerPayload}

\* the payloads of link l the remote endpoint has read from the datagrams of l
PeerSeen(l) ==
    {batch_queue[l][i].payload : i \in
        {j \in 1..Len(batch_queue[l]) :
            /\ ~batch_queue[l][j].is_meta
            /\ batch_queue[l][j].flags.ack
            /\ batch_queue[l][j].flags.p_type = "Data"}}

\* the packets of a remote endpoint without the private key: AckOnly, its own
\* payload, and a payload it has read
PeerKeyless(l) ==
    PeerPlain(l)
      \cup {[PacketAppendPayload(PacketNew("Data", 0), seen)
                EXCEPT !.sequence = InitSeq(Other(l)) + 2] : seen \in PeerSeen(l)}

NextAuth ==
    \/ Start(Lone)
    \/ SendWorker(Lone)
    \/ RecvWorker(Lone)
    \/ PeerTransmit(Lone, PeerKeyless(Lone))
    \/ \E data \in chan[Lone] : Lose(Lone, data)
    \/ sendT[Lone] # "none" /\ \E nonce \in Nonces : AuthCall(Lone, nonce)
    \/ AuthEcho(Lone)
    \/ AuthTimeout(Lone)
    \/ AuthCompare(Lone)

SpecAuth == Init /\ [][NextAuth]_vars

(***************************************************************************)
(* The handshake scenario: each peer calls handshake once.                 *)
(***************************************************************************)
NextHS ==
    \E l \in Peers :
        \/ \E seq \in HsSeqs : HsCall(l, seq)
        \/ HsSend(l)
        \/ HsRecvNothing(l)
        \/ \E data \in chan[l] : HsRecv1(l, data)
        \/ \E data \in chan[l] : HsRecv2(l, data)
        \/ HsTick(l)
        \/ \E data \in chan[l] : Lose(l, data)

SpecHS == Init /\ [][NextHS]_vars

\* the handshake scenario with datagrams of other origin
NextHSStray ==
    \/ NextHS
    \/ \E l \in Peers : \E data \in Strays : HsStray(l, data)

SpecHSStray == Init /\ [][NextHSStray]_vars

\* one step of the thread that runs handshake on peer l
HsStep(l) ==
    \/ \E seq \in HsSeqs : HsCall(l, seq)
    \/ HsSend(l)
    \/ HsRecvNothing(l)
    \/ \E data \in chan[l] : HsRecv1(l, data)
    \/ \E data \in chan[l] : HsRecv2(l, data)

\* both peers call handshake and their threads keep running; the clock advances
FairnessHS == \A l \in Peers : WF_vars(HsStep(l)) /\ WF_vars(HsTick(l))

FairHS == SpecHS /\ FairnessHS

(***************************************************************************)
(* The claims.                                                             *)
(***************************************************************************)
IsPrefix(s, t) == Len(s) <= Len(t) /\ SubSeq(t, 1, Len(s)) = s

\* C1: over a channel that drops, duplicates and reorders datagrams, the payloads
\* returned by the receiver's recv calls are at every moment a prefix of the payloads
\* the sender passed to send, in the same order, none repeated and none skipped.
C1_DeliveredIsPrefix == \A a \in Senders : IsPrefix(delivered[Other(a)], sent[a])

\* C1 happens: every payload the sender passed to send has been returned by recv
C1_AllDelivered ==
    \E a \in Senders : Len(sent[a]) = MaxSend /\ delivered[Other(a)] = sent[a]

\* the send loop pops a Data or KeyExchange packet from the head of its batch
PopsReliable(l) ==
    /\ sendT[l] = "run"
    /\ batch_queue[l] # <<>>
    /\ ~Head(batch_queue[l]).is_meta
    /\ Head(batch_queue[l]).flags.p_type \in {"Data", "KeyExchange"}
    /\ batch_queue'[l] # batch_queue[l]

\* C3: a Data or KeyExchange packet leaves the batch only when AckCheck.check of its
\* sequence number is true at the moment it is popped; popped un-acknowledged, it is
\* transmitted again (stamped with the current acknowledgement) and re-appended to
\* the tail of the batch.
C3_LeavesBatchOnlyAcked ==
    [][\A l \in Peers :
          PopsReliable(l) =>
              LET packet == Head(batch_queue[l])
                  stamped == PacketAddAck(packet, AckListGet(ack_list[l]))
              IN IF AckCheckCheck(ack_check[l], packet.sequence)
                 THEN batch_queue'[l] = Tail(batch_queue[l])
                 ELSE /\ batch_queue'[l] = Append(Tail(batch_queue[l]), stamped)
                      /\ PacketCompile(stamped) \in chan'[Other(l)]]_vars

\* C3 happens: a Data packet that was transmitted is back in the batch during a
\* later pass, and one has left the batch acknowledged
C3_Retransmitted ==
    \E l \in Peers :
        /\ retry[l].passes >= 1
        /\ retry[l].progressed
        /\ \E i \in 1..Len(batch_queue[l]) :
              batch_queue[l][i].flags.p_type = "Data" /\ batch_queue[l][i].flags.ack

C2_EventuallyDelivered ==
    /\ \A k \in 1..MaxSend :
          (Len(sent["A"]) >= k) ~>
              \/ Len(delivered["B"]) >= k /\ delivered["B"][k] = sent["A"][k]
              \/ stop_flag["A"]
              \/ stop_flag["B"]
    /\ [](\A i, j \in 1..Len(delivered["B"]) :
              delivered["B"][i] = delivered["B"][j] => i = j)

\* C2 happens: every payload was delivered, the sender saw all of them acknowledged,
\* and neither link has stopped
C2_DeliveredAndAcknowledged ==
    /\ sent["A"] # <<>>
    /\ delivered["B"] = sent["A"]
    /\ IsEmpty("A")
    /\ ~stop_flag["A"] /\ ~stop_flag["B"]

\* C5 as stated: when no datagram has arrived for more than link_timeout, a recv()
\* call that was already blocked when the timeout fired returns (LinkStopped); it
\* does not block forever.
C5_BlockedRecvReturns ==
    (app[Lone] = "recv" /\ stop_flag[Lone] /\ elapsed[Lone] > config.link.timeout)
        ~> (app[Lone] = "idle")

\* C6 as stated: after stop_flag has been set, send(bytes) returns LinkStopped and
\* changes neither send_seq nor the primary queue.
C6_SendAfterStopFails ==
    [][\A l \in Peers :
          (stop_flag[l] /\ sent'[l] # sent[l]) =>
              /\ result'[l].send = "LinkStopped"
              /\ send_seq'[l] = send_seq[l]
              /\ primary_queue'[l] = primary_queue[l]]_vars

\* C7 as stated: wait_empty() on a started link always terminates, also when the
\* link becomes stopped while payloads are still queued or un-acknowledged.
C7_WaitEmptyTerminates ==
    (app[Lone] = "wait" /\ sendT[Lone] # "none") ~> (app[Lone] = "idle")

\* a Data or KeyExchange packet of the batch that is not acknowledged
Unacknowledged(l) ==
    \E i \in 1..Len(batch_queue[l]) :
        /\ ~batch_queue[l][i].is_meta
        /\ batch_queue[l][i].flags.p_type \in {"Data", "KeyExchange"}
        /\ ~AckCheckCheck(ack_check[l], batch_queue[l][i].sequence)

\* C8 as stated, the direction from left to right: is_empty() returns true only if
\* the primary queue is empty and no Data or KeyExchange packet is un-acknowledged in
\* the batch; in particular it is never true while a packet just fetched from the
\* primary queue is not yet transmitted.
C8_IsEmptyIffNothingPending ==
    \A l \in Peers :
        IsEmpty(l) => primary_queue[l] = <<>> /\ ~Unacknowledged(l)

\* the workers of link l that were spawned have all terminated
AllTerminated(l) ==
    /\ sendT[l] \in {"none", "done"}
    /\ recvT[l] \in {"none", "done", "panicked"}
    /\ decT[l] \in {"none", "done", "panicked"}

C11_BothEstablish ==
    \A l \in Peers : (hs[l].pc = "done") ~> (hs[Other(l)].pc = "done")

\* C12 as stated: during the handshake a received datagram whose payload is not the
\* expected peer uid (also one that is no valid UTF-8) is discarded: it changes neither
\* the recorded sequence number of the peer nor the ack decision, and the handshake
\* goes on with its loop instead of failing.
C12_WrongUidDiscarded ==
    [][\A l \in Peers : \A data \in chan[l] :
          (/\ HsRecv1(l, data) \/ HsRecv2(l, data)
           /\ PacketParse(data).payload # Uid(Other(l)))
          => /\ hs'[l].recv_seq = hs[l].recv_seq
             /\ hs'[l].ack = hs[l].ack
             /\ hs'[l].pc \in {"send1", "send2"}]_vars

\* C13 as stated: a handshake run ends with a Link or, once handshake_timeout has
\* elapsed, with the timeout error; it returns an error only when the deadline has
\* passed.
C13_ErrorOnlyAfterDeadline ==
    [][\A l \in Peers :
          (hs[l].pc # "failed" /\ hs'[l].pc = "failed") => hs[l].polls > HsTimeout]_vars

\* C14 as stated: authenticate returns Authenticated only if the remote endpoint
\* holds the private key matching the claimed uid; an endpoint without that key
\* cannot produce a reply equal to the nonce, and the challenger gets
\* AuthenticationInvalid or AuthenticationFailed.
C14_KeylessNotAuthenticated == result[Lone].auth # "Authenticated"

\* C15: when enable_encryption succeeds on both peers of a link, both install the
\* same symmetric key: each computes the XOR of its own secret with the secret it
\* received, and the two results are equal for all pairs of exchanged secrets.
C15_SameKey ==
    (\A l \in Peers : result[l].enc = "Ok") =>
        /\ cipher["A"] = cipher["B"]
        /\ \E sa, sb \in Secrets : cipher["A"] = <<AetherCipherNew(xor(sa, sb))>>

\* C15 happens: enable_encryption has succeeded on both peers with different secrets
C15_BothEnabled ==
    \A l \in Peers :
        result[l].enc = "Ok" /\ cipher[l] = <<AetherCipherNew(xor(<<1>>, <<5>>))>>

\* the Data packets of link l that wait in its queues
QueuedData(l) ==
    {p \in SeqToSet(primary_queue[l]) \cup SeqToSet(batch_queue[l]) :
        ~p.is_meta /\ p.flags.p_type = "Data"}

\* the Data packets among the datagrams link l has in flight towards its peer
WireData(l) ==
    {p \in {PacketParse(data) : data \in chan[Other(l)]} : p.flags.p_type = "Data"}

\* payload is tag, iv and cipher text of a plaintext passed to send, under the key
IsCipherText(l, payload) ==
    \E i \in 1..Len(sent[l]), iv \in IVs :
        payload = encrypt_bytes(cipher[l][1], sent[l][i], iv)

C17_DecryptWorkerKeepsRunning ==
    /\ decT[Lone] # "panicked"
    /\ (result[Lone].stop = "panic") => (sendT[Lone] = "panicked" \/ recvT[Lone] = "panicked")

\* C18: for every packet p (any type, ack and enc flags, sequence, ack summary with
\* miss_count = |miss|, payload), parsing the bytes of p.compile() yields a packet with
\* the same sequence, p_type, ack flag, enc flag, ack_begin, ack_end, miss_count, miss
\* and payload as p.
C18_ParseOfCompile ==
    receive_queue["B"] # <<>> =>
        LET p == primary_queue["A"][1]
            q == receive_queue["B"][1]
        IN /\ q.sequence = p.sequence
           /\ q.flags = p.flags
           /\ q.ack = p.ack
           /\ q.payload = p.payload

\* C20: get_byte() puts the code of the u8 conversion of the packet type in the high
\* nibble, the ack flag in bit 3 and the enc flag in bit 2, and PacketFlags::from of
\* that byte recovers the same p_type, ack and enc.
C20_FlagsByte ==
    \A data \in chan["B"] :
        LET flags == primary_queue["A"][1].flags
        IN /\ data[10] = PTypeToU8(flags.p_type) * 16
                           + (IF flags.ack THEN 8 ELSE 0) + (IF flags.enc THEN 4 ELSE 0)
           /\ FlagsFromByte(data[10]) = flags

\* C19: a received datagram shorter than 11 bytes, or shorter than 11 + miss_count
\* bytes, is discarded without changing AckList, AckCheck or the ordering buffer, and
\* the receive worker keeps running.
C19_ShortDatagramDiscarded ==
    [][\A data \in chan[Lone] :
          (RecvDatagram(Lone, data) /\ (Len(data) < 11 \/ Len(data) < 11 + data[11]))
          => /\ recvT'[Lone] = "run"
             /\ UNCHANGED <<ack_list, ack_check, order_list>>]_vars

\* the sequences the acknowledgement claims look at: those inserted and one above
AckRange == 0..(MaxAck + 1)

\* C21: after any sequence of AckList.insert calls, check(seq) is true if and only if
\* seq is at most the initial ack_begin or seq was inserted: it is so at creation, and
\* an insert of seq makes check true of seq, and changes check of no other sequence.
C21_CheckIffInserted ==
    /\ \A s \in AckRange : AckListCheck(ack_list["B"], s) = (s <= InitSeq("A"))
    /\ [][\A seq \in AckSeqs : ListInsert(seq) =>
            \A s \in AckRange :
                AckListCheck(ack_list'["B"], s) = (AckListCheck(ack_list["B"], s) \/ s = seq)]_vars

\* C21 happens: sequences were inserted out of order, some were compacted into
\* ack_begin, one below the highest is missing
C21_InsertedWithGap ==
    /\ ack_list["B"].ack_begin = 2
    /\ AckListCheck(ack_list["B"], 5)
    /\ ~AckListCheck(ack_list["B"], 3)
    /\ ~AckListCheck(ack_list["B"], 6)

\* C22: AckList.insert is idempotent: inserting a sequence that was already inserted,
\* or that is at most ack_begin, leaves ack_begin, ack_end, get() and check(s) for
\* every s unchanged.
C22_InsertIdempotent ==
    [][\A seq \in AckSeqs :
          (ListInsert(seq) /\ AckListCheck(ack_list["B"], seq)) =>
              /\ ack_list'["B"].ack_begin = ack_list["B"].ack_begin
              /\ ack_list'["B"].ack_end = ack_list["B"].ack_end
              /\ AckListGet(ack_list'["B"]) = AckListGet(ack_list["B"])
              /\ \A s \in AckRange :
                    AckListCheck(ack_list'["B"], s) = AckListCheck(ack_list["B"], s)]_vars

\* C22 happens: the list holds an inserted sequence above ack_begin and below the
\* highest one, and compacted ones, all of which can be inserted again
C22_HoldsInserted ==
    /\ ack_list["B"].ack_begin = 1
    /\ ack_list["B"].ack_end = 4
    /\ AckListCheck(ack_list["B"], 3)
    /\ ~AckListCheck(ack_list["B"], 4)

\* the sequences a summary confirms: those up to ack_begin, and ack_begin + i for the
\* offsets i in 0..ack_end that miss does not list
Confirms(a, s) ==
    \/ s <= a.ack_begin
    \/ \E i \in 0..a.ack_end : i \notin SeqToSet(a.miss) /\ s = a.ack_begin + i

\* C23: after any sequence of AckCheck.insert and AckCheck.acknowledge(a) calls,
\* check(s) is true exactly for the sequences that are at most the initial begin, were
\* inserted, or are confirmed by an acknowledged summary (at most a.ack_begin, or
\* a.ack_begin + i for an offset i in 0..=a.ack_end not listed in a.miss): it is so at
\* creation, and each call adds exactly the sequences it names.
C23_CheckExactlyConfirmed ==
    /\ \A s \in AckRange : AckCheckCheck(ack_check["A"], s) = (s <= InitSeq("A"))
    /\ [][/\ \A seq \in AckSeqs : CheckInsert(seq) =>
                \A s \in AckRange :
                    AckCheckCheck(ack_check'["A"], s)
                      = (AckCheckCheck(ack_check["A"], s) \/ s = seq)
          /\ \A a \in Acks : CheckAcknowledge(a) =>
                \A s \in AckRange :
                    AckCheckCheck(ack_check'["A"], s)
                      = (AckCheckCheck(ack_check["A"], s) \/ Confirms(a, s))]_vars

\* C23 happens: after inserts and merged summaries a sequence is confirmed above one
\* that is not, and the compacted ones below are confirmed
C23_MissingNotConfirmed ==
    /\ ack_check["A"].begin = 2
    /\ ~AckCheckCheck(ack_check["A"], 3)
    /\ AckCheckCheck(ack_check["A"], 4)
    /\ ~AckCheckCheck(ack_check["A"], 5)

\* C24: for every reachable AckList state, get() returns the list's ack_begin and
\* ack_end and a miss list that is strictly increasing, contains exactly the offsets i
\* in 1..=ack_end whose sequence ack_begin + i is not in the list (was not inserted),
\* and satisfies miss_count = |miss| <= ack_end.
C24_GetListsTheMissing ==
    LET a == ack_list["B"]
        ack == AckListGet(a)
    IN /\ ack.ack_begin = a.ack_begin
       /\ ack.ack_end = a.ack_end
       /\ \A i, j \in 1..Len(ack.miss) : i < j => ack.miss[i] < ack.miss[j]
       /\ SeqToSet(ack.miss) = {i \in 1..a.ack_end : ~AckListCheck(a, a.ack_begin + i)}
       /\ ack.miss_count = Len(ack.miss)
       /\ ack.miss_count <= a.ack_end

\* C24 happens: get() of the list reports two missing offsets
C24_TwoMissing == AckListGet(ack_list["B"]).miss = <<1, 3>>

\* C25: for an AckList L and an AckCheck C created with the same initial sequence,
\* after any inserts into L followed by C.acknowledge(L.get()), C.check(s) equals
\* L.check(s) for every sequence s.
C25_SummaryTransfersReceivedSet ==
    [][ListTransfer =>
          \A s \in AckRange :
              AckCheckCheck(ack_check'["A"], s) = AckListCheck(ack_list["B"], s)]_vars

\* C25 happens: the check holds what a list with a missing sequence reported
C25_TransferredWithGap ==
    /\ AckListGet(ack_list["B"]).miss = <<1, 2>>
    /\ AckCheckCheck(ack_check["A"], ack_list["B"].ack_begin + 3)
    /\ ~AckCheckCheck(ack_check["A"], ack_list["B"].ack_begin + 2)
    /\ ack_check["A"].begin = ack_list["B"].ack_begin
    /\ ack_check["A"].begin > 0

\* C26: after every AckList.insert, ack_begin is the largest value b such that every
\* sequence up to b has been inserted (or is at most the initial begin), ack_begin +
\* ack_end equals the highest sequence inserted so far, ack_end does not underflow, and
\* is_complete() holds exactly when every sequence up to the highest inserted one has
\* been inserted.  Stated for one insert of seq, "inserted" being check before it or seq.
C26_BeginIsContiguousPrefix ==
    /\ ack_list["B"].ack_begin = InitSeq("A") /\ ack_list["B"].ack_end = 0
    /\ [][\A seq \in AckSeqs : ListInsert(seq) =>
            LET a == ack_list["B"]
                b == ack_list'["B"]
                inserted == {s \in AckRange : AckListCheck(a, s) \/ s = seq}
                highest == IF seq > a.ack_begin + a.ack_end THEN seq
                           ELSE a.ack_begin + a.ack_end
            IN /\ (0..b.ack_begin) \subseteq inserted
               /\ (b.ack_begin + 1) \notin inserted
               /\ b.ack_begin + b.ack_end = highest
               /\ b.ack_end >= 0
               /\ AckListIsComplete(b) = ((0..highest) \subseteq inserted)]_vars

\* C26 happens: inserts filled a gap, ack_begin advanced over the run and a higher
\* sequence is still ahead of a missing one
C26_AdvancedOverRun ==
    /\ ack_list["B"].ack_begin = 4
    /\ ack_list["B"].ack_end = 2
    /\ ~AckListIsComplete(ack_list["B"])

\* the sequences of the packets the ordering buffer of "B" has emitted
Emitted == [i \in 1..Len(receive_queue["B"]) |-> receive_queue["B"][i].sequence]

\* C27: for any arrival order of distinct sequences at or above next_expected, the
\* ordering buffer stores a packet with seq > next_expected without emitting anything,
\* and on seq == next_expected emits that packet followed by all contiguously stored
\* successors in increasing order, removes them from storage and advances
\* next_expected past the run; every packet is emitted exactly once, in sequence order.
C27_EmitsInSequenceOrder ==
    /\ [](/\ Emitted = [i \in 1..(order_list["B"].seq - InitSeq("A")) |-> InitSeq("A") + i]
          /\ \A i \in 1..Len(Emitted) : receive_queue["B"][i] = OrderPacket(Emitted[i])
          /\ recvT["B"] # "panicked")
    /\ [][\A seq \in AckSeqs : OrderOutput(seq) =>
            LET o == order_list["B"]
                n == order_list'["B"]
            IN IF seq > o.seq + 1
               THEN /\ receive_queue'["B"] = receive_queue["B"]
                    /\ n.seq = o.seq
                    /\ DOMAIN n.list = DOMAIN o.list \cup {seq}
                    /\ n.list[seq] = OrderPacket(seq)
               ELSE /\ n.seq >= seq
                    /\ (seq + 1)..n.seq \subseteq DOMAIN o.list
                    /\ (n.seq + 1) \notin DOMAIN o.list
                    /\ DOMAIN n.list = DOMAIN o.list \ (seq..n.seq)
                    /\ Len(receive_queue'["B"]) = Len(receive_queue["B"]) + (n.seq - seq) + 1]_vars

\* C27 happens: 3, 2 and 5 arrived before 1; 1, 2, 3 were emitted and 5 is stored
C27_RunEmitted ==
    /\ Emitted = <<1, 2, 3>>
    /\ DOMAIN order_list["B"].list = {5}

\* the datagram holds a packet that reaches the ordering buffer of link l (it is no
\* duplicate for the AckList and no AckOnly) with a sequence below next_expected
ReachesOrderListOld(l, data) ==
    /\ ~PacketParsePanics(data)
    /\ LET packet == PacketParse(data)
       IN /\ ~AckListCheck(ack_list[l], packet.sequence)
          /\ packet.flags.p_type # "AckOnly"
          /\ packet.sequence <= order_list[l].seq

\* C28: a packet that reaches the ordering buffer with a sequence below next_expected
\* is dropped: nothing is emitted, the buffer's state is unchanged, and the receive
\* worker keeps running.
C28_OldSequenceDropped ==
    [][\A data \in chan[Lone] :
          (RecvDatagram(Lone, data) /\ ReachesOrderListOld(Lone, data))
          => /\ receive_queue'[Lone] = receive_queue[Lone]
             /\ order_list'[Lone] = order_list[Lone]
             /\ recvT'[Lone] = "run"]_vars

C30_AckOnlyLeavesNoTrace ==
    /\ [](\A i \in 1..Len(receive_queue["B"]) :
              receive_queue["B"][i].flags.p_type # "AckOnly")
    /\ [][\A data \in chan["B"] :
            (RecvDatagram("B", data) /\ ~PacketParsePanics(data)) =>
                LET packet == PacketParse(data)
                IN /\ packet.flags.p_type = "AckOnly" =>
                          /\ ack_list'["B"] = ack_list["B"]
                          /\ order_list'["B"] = order_list["B"]
                          /\ receive_queue'["B"] = receive_queue["B"]
                   /\ (/\ packet.flags.p_type = "Data"
                       /\ ~AckListCheck(ack_list["B"], packet.sequence)) =>
                          /\ AckListCheck(ack_list'["B"], packet.sequence)
                          /\ recvT'["B"] = "run"
                          /\ IF packet.sequence = order_list["B"].seq + 1
                             THEN receive_queue'["B"][Len(receive_queue["B"]) + 1].payload
                                    = packet.payload
                             ELSE packet.sequence \in DOMAIN order_list'["B"].list]_vars

\* C30 happens: the keepalive was built after send() advanced send_seq: an AckOnly
\* packet with the sequence of a Data packet that still waits in the primary queue is
\* in flight towards the running receive worker
C30_AckOnlyAheadOfData ==
    /\ recvT["B"] = "run"
    /\ primary_queue["A"] # <<>>
    /\ \E data \in chan["B"] :
          /\ PacketParse(data).flags.p_type = "AckOnly"
          /\ PacketParse(data).sequence = primary_queue["A"][1].sequence

\* the sequences of the packets of queue q that are sent until acknowledged
QueueSeqs(q) == {q[i].sequence : i \in {j \in 1..Len(q) : ~q[j].is_meta /\ needs_ack(q[j])}}

\* C31: the send loop takes packets from the primary queue only when its batch is
\* completely empty, and at most window_size of them at a time; the batch never holds
\* more than window_size Data/KeyExchange packets; no packet of a later window is
\* transmitted before every packet of the current window has been acknowledged (what
\* waits in the primary queue is not in flight, and what has left both queues is
\* acknowledged).
C31_OneWindowAtATime ==
    /\ [](/\ Cardinality(QueueSeqs(batch_queue[Lone])) <= config.link.window_size
          /\ \A data \in chan[Other(Lone)] :
                PacketParse(data).flags.p_type = "Data"
                    => PacketParse(data).sequence \notin QueueSeqs(primary_queue[Lone])
          /\ \A seq \in (InitSeq(Lone) + 1)..send_seq[Lone] :
                seq \notin QueueSeqs(batch_queue[Lone]) \cup QueueSeqs(primary_queue[Lone])
                    => AckCheckCheck(ack_check[Lone], seq))
    /\ [][Len(primary_queue'[Lone]) < Len(primary_queue[Lone]) =>
            /\ batch_queue[Lone] = <<>>
            /\ Len(primary_queue[Lone]) - Len(primary_queue'[Lone]) <= config.link.window_size
            /\ batch_queue'[Lone] \o primary_queue'[Lone] = primary_queue[Lone]]_vars

\* C31 happens: three payloads were sent, the first window of two is acknowledged and
\* gone, the third packet is the batch and in flight
C31_SecondWindow ==
    /\ Len(sent[Lone]) = 3
    /\ QueueSeqs(batch_queue[Lone]) = {InitSeq(Lone) + 3}
    /\ ack_check[Lone].begin = InitSeq(Lone) + 2
    /\ \E data \in chan[Other(Lone)] : PacketParse(data).sequence = InitSeq(Lone) + 3

\* the number of meta markers in queue q
MetaCount(q) == Cardinality({i \in 1..Len(q) : q[i].is_meta})

\* C32: at every moment the batch queue holds at most one meta marker, and a meta
\* marker is never compiled or transmitted: every datagram the send loop puts in
\* flight is the compiled, stamped head of the batch, a non-meta packet, and none has
\* the shape of a marker (Extended, sequence 0).
C32_MetaMarkerStaysHome ==
    /\ [](/\ MetaCount(batch_queue[Lone]) <= 1
          /\ \A data \in chan[Other(Lone)] :
                ~(PacketParse(data).flags.p_type = "Extended" /\ PacketParse(data).sequence = 0))
    /\ [][\A data \in chan'[Other(Lone)] \ chan[Other(Lone)] :
            /\ batch_queue[Lone] # <<>>
            /\ ~Head(batch_queue[Lone]).is_meta
            /\ data = PacketCompile(SendAddAck(Lone, Head(batch_queue[Lone])))]_vars

\* C32 happens: the batch holds a transmitted packet and the marker of a later pass,
\* and the packet is in flight
C32_MarkerBehindPacket ==
    /\ Len(batch_queue[Lone]) = 2
    /\ batch_queue[Lone][2].is_meta
    /\ batch_queue[Lone][2].meta.retry_count = 0
    /\ chan[Other(Lone)] = {PacketCompile(batch_queue[Lone][1])}

\* C33: when the batch and the primary queue are both empty, an idle cycle queues one
\* AckOnly packet whose sequence is the current send_seq, transmits it once, does not
\* re-queue it, leaves send_seq unchanged and does not advance the retry counter; a
\* link with nothing to send is not stopped by retry exhaustion.
C33_IdleCycleKeepalive ==
    /\ [](retry[Lone].exhausted => QueueSeqs(batch_queue[Lone]) # {})
    /\ [][/\ (SendWindow(Lone) /\ batch_queue[Lone] = <<>>) =>
                /\ batch_queue'[Lone] = <<PacketNew("AckOnly", send_seq[Lone]),
                                         MetaPacket(-1, config.link.ack_only_time)>>
                /\ send_seq'[Lone] = send_seq[Lone]
          /\ (SendPacket(Lone) /\ Head(batch_queue[Lone]).flags.p_type = "AckOnly") =>
                /\ chan'[Other(Lone)] \ chan[Other(Lone)]
                     \subseteq {PacketCompile(SendAddAck(Lone, Head(batch_queue[Lone])))}
                /\ batch_queue'[Lone] = Tail(batch_queue[Lone])
                /\ send_seq'[Lone] = send_seq[Lone]
                /\ retry'[Lone] = retry[Lone]
                /\ stop_flag'[Lone] = stop_flag[Lone]
          /\ (SendMeta(Lone) /\ Tail(batch_queue[Lone]) = <<>>) =>
                /\ batch_queue'[Lone] = <<>>
                /\ retry'[Lone] = retry[Lone]
                /\ stop_flag'[Lone] = stop_flag[Lone]]_vars

\* C33 happens: nothing was sent, the keepalive with the current send_seq is in flight
\* and only the marker of the idle cycle is left in the batch
C33_KeepaliveInFlight ==
    /\ sent[Lone] = <<>>
    /\ batch_queue[Lone] = <<MetaPacket(-1, config.link.ack_only_time)>>
    /\ \E data \in chan[Other(Lone)] :
          /\ PacketParse(data).flags.p_type = "AckOnly"
          /\ PacketParse(data).sequence = send_seq[Lone]

\* C34: every datagram transmitted by the send loop, including each retransmission
\* and each AckOnly, has the ack flag set and carries the ack summary AckList.get()
\* taken at the time of that transmission.
C34_FreshSummaryOnEveryDatagram ==
    [][/\ \A data \in chan'[Other(Lone)] \ chan[Other(Lone)] :
             /\ PacketParse(data).flags.ack
             /\ PacketParse(data).ack = AckListGet(ack_list[Lone])
             /\ PacketParse(data).sequence = Head(batch_queue[Lone]).sequence
       /\ (SendPacket(Lone) /\ ~SendCheckAck(Lone, Head(batch_queue[Lone]))) =>
             \E data \in chan'[Other(Lone)] :
                 /\ PacketParse(data).flags.ack
                 /\ PacketParse(data).ack = AckListGet(ack_list[Lone])
                 /\ PacketParse(data).sequence = Head(batch_queue[Lone]).sequence
                 /\ PacketParse(data).payload = Head(batch_queue[Lone]).payload]_vars

\* C34 happens: a Data packet that was transmitted with an earlier summary is at the
\* head of the batch, unacknowledged, while the AckList has moved on
C34_RetransmissionDue ==
    /\ sendT[Lone] = "run" /\ ~stop_flag[Lone]
    /\ batch_queue[Lone] # <<>>
    /\ Head(batch_queue[Lone]).flags.p_type = "Data"
    /\ Head(batch_queue[Lone]).flags.ack
    /\ Head(batch_queue[Lone]).ack # AckListGet(ack_list[Lone])
    /\ ~SendCheckAck(Lone, Head(batch_queue[Lone]))

\* C35: AckList.insert(seq) with seq > ack_begin + MAX_WINDOW is an error outcome that
\* leaves ack_begin, ack_end and the stored set unchanged and, when triggered by a
\* received datagram, does not terminate the receive worker.
C35_WindowOverflowIsAnError ==
    [][\A data \in chan[Lone] :
          (/\ RecvDatagram(Lone, data)
           /\ ~PacketParsePanics(data)
           /\ needs_ack(PacketParse(data))
           /\ PacketParse(data).sequence > ack_list[Lone].ack_begin + MAX_WINDOW)
          => /\ ack_list'[Lone] = ack_list[Lone]
             /\ recvT'[Lone] = "run"]_vars

\* the packets of link l that were given a sequence number and are not yet acknowledged
Numbered(l) == pending[l] \cup QueuedData(l)

\* C36: under any interleaving of concurrent send() calls on one link, the k-th accepted
\* payload gets the sequence number initial send_seq + k (distinct, no gap), and the peer
\* delivers the payloads in increasing order of these numbers even if they entered the
\* primary queue in a different order.
C36_ConcurrentSendsNumberedAndOrdered ==
    \A l \in Senders :
        /\ send_seq[l] = InitSeq(l) + Len(sent[l])
        /\ \A p \in Numbered(l) : p.sequence = InitSeq(l) + p.payload[1]
        /\ \A p, q \in Numbered(l) : p.sequence = q.sequence => p = q
        /\ Len(delivered[Other(l)]) <= Len(sent[l])
        /\ \A i \in 1..Len(delivered[Other(l)]) : delivered[Other(l)][i] = <<i>>

\* both payloads are delivered while the batch still holds them in the reverse order
C36_QueuedInReverseDelivered ==
    \E l \in Senders :
        /\ Len(batch_queue[l]) >= 2
        /\ batch_queue[l][1].sequence = InitSeq(l) + 2
        /\ batch_queue[l][2].sequence = InitSeq(l) + 1
        /\ delivered[Other(l)] = <<<<1>>, <<2>>>>

\* C37: the receive loop sets stop_flag only when the time since the last received
\* datagram exceeds link_timeout, and every received datagram resets that clock: an
\* iteration that received a datagram leaves the clock at zero and does not stop the link.
C37_EveryDatagramResetsIdleClock ==
    [][/\ (~stop_flag[Lone] /\ stop_flag'[Lone]
              /\ (RecvWorker(Lone) \/ \E data \in chan[Lone] : RecvEmpty(Lone, data)))
          => /\ chan' = chan
             /\ elapsed'[Lone] > config.link.timeout
       /\ \A data \in chan[Lone] :
             (RecvDatagram(Lone, data) \/ RecvEmpty(Lone, data))
             => /\ elapsed'[Lone] = 0
                /\ stop_flag'[Lone] = stop_flag[Lone]]_vars

\* the sequence numbers above the initial one that link l can have given to a packet
Given(l) == (InitSeq(l) + 1)..(InitSeq(l) + MaxSend + 1)

\* C38: for a pair of honest peers, after every step every sequence above the sender's
\* initial send_seq that its AckCheck confirms is one the peer's AckList holds, and a Data
\* packet that leaves the sender's queues is one the peer's AckList holds, whatever
\* datagrams (data, keepalives, late handshake packets with or without the ack flag) are
\* lost or duplicated.
C38_AckCheckConfirmsOnlyReceived ==
    [][\A l \in Peers :
          /\ \A s \in Given(l) :
                AckCheckCheck(ack_check'[l], s) => AckListCheck(ack_list'[Other(l)], s)
          /\ \A p \in QueuedData(l) :
                (\A q \in QueuedData(l)' : q.sequence # p.sequence)
                => AckListCheck(ack_list[Other(l)], p.sequence)]_vars

\* the sender has dropped an acknowledged packet and a late handshake packet with the ack
\* flag is at its socket
C38_DroppedAfterLateHandshake ==
    /\ sent["A"] # <<>>
    /\ QueuedData("A") = {}
    /\ ack_check["A"].begin = InitSeq("A") + 1
    /\ \E data \in LateHs("A") \cap chan["A"] : PacketParse(data).flags.ack

\* C39: after each datagram the receive loop processed, the last sequence the ordering
\* buffer delivered equals AckList.ack_begin and the buffer stores exactly the received
\* sequences above ack_begin, so no packet that passes the duplicate check takes the
\* "Sequence number too old" branch.
C39_OrderListFollowsAckList ==
    [][\A data \in chan[Lone] :
          RecvDatagram(Lone, data)
          => /\ order_list'[Lone].seq = ack_list'[Lone].ack_begin
             /\ DOMAIN order_list'[Lone].list
                   = {s \in ack_list'[Lone].list : s > ack_list'[Lone].ack_begin}
             /\ (recvT'[Lone] = "panicked" => PacketParsePanics(data))]_vars

\* C40: for a pair of honest peers, every Data or KeyExchange sequence that arrives at
\* the receiver is at most window_size above AckList.ack_begin, so insert does not
\* overflow the window and every ack summary put on a packet has ack_end and miss_count
\* of at most 255, which the 8-bit wire fields carry without truncation.
C40_ArrivalsWithinWindow ==
    [][\A l \in Peers :
          /\ \A data \in chan[l] :
                (RecvDatagram(l, data) /\ ~PacketParsePanics(data)
                    /\ needs_ack(PacketParse(data)))
                => /\ PacketParse(data).sequence - ack_list[l].ack_begin
                         <= config.link.window_size
                   /\ ~AckListInsertPanics(ack_list[l], PacketParse(data).sequence)
          /\ \A p \in SeqToSet(batch_queue'[l]) :
                (~p.is_meta /\ p.flags.ack)
                => /\ p.ack.ack_end <= 255
                   /\ p.ack.miss_count <= 255
                   /\ PacketParse(PacketCompile(p)).ack = p.ack]_vars

====
